---- MODULE Spec2Model ----
(***************************************************************************)
(* A model of the Refurboard tracking pipeline (src/src/refurboard_py):    *)
(* the adaptive click threshold, the One-Euro position filter with its     *)
(* reacquisition gate, the pointer driver, the single-slot camera buffer   *)
(* and the tracking loop that wires them together.                         *)
(*                                                                         *)
(* Numbers.  The program computes in binary floating point; the model      *)
(* computes the same expressions exactly, in rationals held as integers:   *)
(*   - an intensity baseline is num / 50^k (0.98 = 49/50, 0.02 = 1/50);    *)
(*   - sensitivity and hysteresis are counted in quarters (2 = 0.5);       *)
(*   - a normalised screen coordinate is counted in units of 1/10000.      *)
(***************************************************************************)
EXTENDS Integers, Sequences, FiniteSets, TLC

VARIABLES
    \* RefurboardApp and the objects it owns (app.py:29-69)
    click_threshold,    \* self.click_threshold, an AdaptiveThreshold
    smoother,           \* self.smoother, a OneEuroFilter
    pointer_driver,     \* self.pointer_driver, a PointerDriver
    calibration,        \* self.config.calibration, a CalibrationProfile or None
    homography,         \* self.homography, a 3x3 matrix or None
    quad_filter,        \* self.quad_filter, a QuadFilter or None
    calibrating,        \* self._calibrating
    calibration_abort,  \* self._calibration_abort
    pointer_resume_time,\* self._pointer_resume_time, in milliseconds
    telemetry,          \* self.telemetry
    camera_stream,      \* self.camera_stream: None or <<id>> of the open stream
    cam_frame,          \* the open stream's _frame: None or the latest frame
    \* the three workers
    t_pc, t_local,      \* tracking worker: position in _tracking_loop, its locals
    c_pc,               \* calibration worker: position in _calibrate
    clock,              \* the time, in ticks of TickMs milliseconds
    \* what happened, kept for the properties
    thr_last,           \* the last call on click_threshold: arguments and result
    flt_last,           \* the last call on smoother
    flt_streak,         \* samples in a row that stayed within the candidate's radius
    it,                 \* the tracking iteration in progress or just completed
    frame_log,          \* per published camera frame: does it hold any blob
    acted_on,           \* the frames whose iteration issued a move or a press
    n_calibrated,       \* calibration runs started so far
    \* self.blob_tracker, a BlobTracker, and the last call on it
    blob_tracker,
    trk_last,
    \* a QuadFilter on its own: the vertices it was built from, the filter and
    \* the last call on it
    quad_pts,
    quad_obj,
    quad_last,
    \* a calibration run step by step
    k_local,            \* the locals of _calibrate, run_calibration, _collect_point
    overlays,           \* the CalibrationOverlay objects created so far
    overlay_registry,   \* _OVERLAY_REGISTRY
    disk,               \* the calibration in the config file
    ui_pc,              \* the thread that calls shutdown
    \* a PointerDriver on its own: the last call on pointer_driver
    pd_last,
    \* a Smoother on its own (detection.py:428-499) and the last call on it
    ema,
    \* a fit of the calibration homography on its own: the point pairs, the matrix
    \* and the reprojected camera points
    fit,
    \* the configuration file on its own: the configuration the caller holds,
    \* the file and the last call
    conf,
    \* a CalibrationOverlay on its own with its overlay process and the pipe
    \* between them
    ovl,
    \* PointerDriver.update_click statement by statement, called by the tracking
    \* worker and by the calibration worker on the one driver
    clk,
    \* run_calibration and _calibrate statement by statement: the UI thread, the
    \* calibration workers it has started, the thread attribute and the flags
    ses

thrVars == <<click_threshold, thr_last>>
fltVars == <<smoother, flt_last, flt_streak>>
appVars == <<pointer_driver, calibration, homography, quad_filter, calibrating,
             calibration_abort, pointer_resume_time, telemetry, camera_stream,
             cam_frame, t_pc, t_local, c_pc, clock, it, frame_log, acted_on,
             n_calibrated>>

trkVars == <<blob_tracker, trk_last>>

\* the objects that the tracking loop leaves alone
quadVars == <<quad_pts, quad_obj, quad_last>>
calVars == <<k_local, overlays, overlay_registry, disk, ui_pc>>
ptrVars == <<pd_last>>
numVars == <<ema, fit, conf, ovl, clk, ses>>
sideVars == <<trkVars, quadVars, calVars, ptrVars, numVars>>

vars == <<thrVars, fltVars, appVars, sideVars>>

\* Python's None; an optional number t is held as <<t>>
None == <<>>

-----------------------------------------------------------------------------
(* Bounds of the model *)

\* blends of the baseline after its seed that a run follows (50^k must fit)
MaxBlend == 3
\* largest reacquire_frames a filter is built with
MaxReacquire == 3
\* timestamps handed to a filter exercised on its own run from 0 to MaxStamp
MaxStamp == 1
\* updates in a row that a run follows while the filter holds a trusted position
MaxTrack == 1
\* camera frames published in a run
MaxFrames == 3
\* the clock runs from 0 to MaxClock ticks
MaxClock == 1
\* calibration runs started in a run
MaxCalibrations == 1

-----------------------------------------------------------------------------
(* AdaptiveThreshold, detection.py:236-262 *)

\* signal values the model feeds; the tested sequence 10, 20, 15, 5 is 2, 4, 3, 1
SignalSet == 0..4
\* sensitivity and hysteresis in quarters: 0, 0.5, 0.75 and 0, 0.25
SensitivitySet == {0, 2, 3}
HysteresisSet == {0, 1}

Pow50(k) == IF k = 0 THEN 1 ELSE IF k = 1 THEN 50 ELSE IF k = 2 THEN 2500
            ELSE IF k = 3 THEN 125000 ELSE 6250000

\* the same rational in lowest terms of 50
RECURSIVE NormBaseline(_)
NormBaseline(b) ==
    IF b.k > 0 /\ b.num % 50 = 0
    THEN NormBaseline([num |-> b.num \div 50, k |-> b.k - 1])
    ELSE b

\* AdaptiveThreshold.__init__
AT_init(sensitivity, hysteresis) ==
    [sensitivity |-> sensitivity, hysteresis |-> hysteresis,
     baseline |-> [num |-> 0, k |-> 0], state |-> FALSE]

\* lines 246-249: seed when the baseline is zero, otherwise blend
AT_absorb(b, signal) ==
    IF b.num = 0
    THEN [num |-> signal, k |-> 0]
    ELSE NormBaseline([num |-> 49 * b.num + signal * Pow50(b.k), k |-> b.k + 1])

\* signal >= high, high = baseline + baseline*sensitivity          (line 251)
AT_geHigh(signal, b, sens) ==
    4 * signal * Pow50(b.k) >= 4 * b.num + b.num * sens

\* signal >= low, low = high * (1.0 - hysteresis)                   (line 252)
AT_geLow(signal, b, sens, hyst) ==
    16 * signal * Pow50(b.k) >= (4 * b.num + b.num * sens) * (4 - hyst)

\* a slip that would derive the thresholds before the baseline absorbs the signal
AT_evaluate_stale(at, signal) ==
    [at EXCEPT !.baseline = AT_absorb(at.baseline, signal),
               !.state = IF at.state
                         THEN AT_geLow(signal, at.baseline, at.sensitivity, at.hysteresis)
                         ELSE AT_geHigh(signal, at.baseline, at.sensitivity)]

\* a slip that would compare against high in both states (no hysteresis band)
AT_evaluate_noband(at, signal) ==
    LET b == AT_absorb(at.baseline, signal)
    IN  [at EXCEPT !.baseline = b, !.state = AT_geHigh(signal, b, at.sensitivity)]

\* AdaptiveThreshold.evaluate; the returned value is the new .state
AT_evaluate(at, signal) ==
    LET b == AT_absorb(at.baseline, signal)
    IN  [at EXCEPT !.baseline = b,
                   !.state = IF at.state
                             THEN AT_geLow(signal, b, at.sensitivity, at.hysteresis)
                             ELSE AT_geHigh(signal, b, at.sensitivity)]

\* AdaptiveThreshold.reset
AT_reset(at) == [at EXCEPT !.baseline = [num |-> 0, k |-> 0], !.state = FALSE]

\* one call click_threshold.evaluate(signal)
ThrEvaluate ==
    \E signal \in SignalSet :
        /\ click_threshold.baseline.num = 0 \/ click_threshold.baseline.k < MaxBlend
        /\ click_threshold' = AT_evaluate(click_threshold, signal)
        /\ thr_last' = [op |-> "evaluate", before |-> click_threshold, signal |-> signal,
                        first |-> thr_last.op \in {"init", "reset"}]

\* one call click_threshold.reset()
ThrReset ==
    /\ thr_last.op = "evaluate"
    /\ click_threshold' = AT_reset(click_threshold)
    /\ thr_last' = [op |-> "reset", before |-> click_threshold, signal |-> 0, first |-> FALSE]

NextThreshold == (ThrEvaluate \/ ThrReset) /\ UNCHANGED <<fltVars, appVars, sideVars>>


-----------------------------------------------------------------------------
(* OneEuroFilter, detection.py:294-425 *)

\* positions are pairs of normalised coordinates in units of 1/10000; the samples
\* are multiples of 0.1, so that the 0.7/0.3 candidate blend stays exact
SampleSet == {<<5000, 5000>>, <<5000, 6000>>, <<6000, 5000>>, <<9000, 9000>>}
\* reacquire_radius: 0.1 (the tested value) and 0.25 (the default)
RadiusSet == {1000, 2500}
\* The smoothing factors 1/(1 + tau/dt) depend on the wall-clock dt, on pi and on
\* a Euclidean norm; each lies strictly between 0 and 1.  The model draws them, in
\* quarters, instead of computing them (2 is 1/2).
AlphaSet == {2}

Dist2(p, q) == (p[1] - q[1]) * (p[1] - q[1]) + (p[2] - q[2]) * (p[2] - q[2])

\* OneEuroFilter.__init__ (lines 326-339)
OEF_init(reacquire_frames, reacquire_radius) ==
    [reacquire_frames |-> reacquire_frames, reacquire_radius |-> reacquire_radius,
     x |-> None, dx |-> None, last_time |-> None,
     candidate |-> None, candidate_frames |-> 0]

\* a reset that would leave the candidate of a reacquisition in place
OEF_reset_partial(f) == [f EXCEPT !.x = None, !.dx = None, !.last_time = None]

\* OneEuroFilter.reset (lines 341-347)
OEF_reset(f) ==
    [f EXCEPT !.x = None, !.dx = None, !.last_time = None,
              !.candidate = None, !.candidate_frames = 0]

\* 0.7 * candidate + 0.3 * current (line 390)
OEF_blend(c, cur) ==
    <<(7 * c[1] + 3 * cur[1]) \div 10, (7 * c[2] + 3 * cur[2]) \div 10>>

\* a * v + (1 - a) * w with a in quarters (lines 415 and 423)
OEF_mix(a, v, w) ==
    <<(a * v[1] + (4 - a) * w[1]) \div 4, (a * v[2] + (4 - a) * w[2]) \div 4>>

\* an acceptance test that would ask for one frame more
OEF_enough_late(frames, reacquire_frames) == frames > reacquire_frames

\* the acceptance test of line 392
OEF_enough(frames, reacquire_frames) == frames >= reacquire_frames

\* an acquisition that would skip the radius test and count every sample as stable
OEF_acquire_nogate(f, current, now) ==
    IF f.reacquire_frames <= 0
    THEN [f |-> [f EXCEPT !.x = current, !.dx = <<0, 0>>, !.last_time = <<now>>],
          out |-> current]
    ELSE IF f.candidate = None
    THEN [f |-> [f EXCEPT !.candidate = current, !.candidate_frames = 1,
                          !.last_time = <<now>>],
          out |-> None]
    ELSE LET frames == f.candidate_frames + 1
             cand == OEF_blend(f.candidate, current)
         IN  IF OEF_enough(frames, f.reacquire_frames)
             THEN [f |-> [f EXCEPT !.x = cand, !.dx = <<0, 0>>, !.candidate = None,
                                   !.candidate_frames = 0, !.last_time = <<now>>],
                   out |-> cand]
             ELSE [f |-> [f EXCEPT !.candidate_frames = frames, !.candidate = cand],
                   out |-> None]

\* OneEuroFilter.update while there is no trusted position (lines 372-403);
\* the result is the filter after the call and the value returned
OEF_acquire(f, current, now) ==
    IF f.reacquire_frames <= 0
    THEN [f |-> [f EXCEPT !.x = current, !.dx = <<0, 0>>, !.last_time = <<now>>],
          out |-> current]
    ELSE IF f.candidate = None
    THEN [f |-> [f EXCEPT !.candidate = current, !.candidate_frames = 1,
                          !.last_time = <<now>>],
          out |-> None]
    ELSE IF Dist2(current, f.candidate) < f.reacquire_radius * f.reacquire_radius
    THEN LET frames == f.candidate_frames + 1
             cand == OEF_blend(f.candidate, current)
         IN  IF OEF_enough(frames, f.reacquire_frames)
             THEN [f |-> [f EXCEPT !.x = cand, !.dx = <<0, 0>>, !.candidate = None,
                                   !.candidate_frames = 0, !.last_time = <<now>>],
                   out |-> cand]
             ELSE [f |-> [f EXCEPT !.candidate_frames = frames, !.candidate = cand],
                   out |-> None]
    ELSE [f |-> [f EXCEPT !.candidate = current, !.candidate_frames = 1],
          out |-> None]

\* OneEuroFilter.update with a trusted position (lines 405-425); ad and a are the
\* smoothing factors of the derivative and of the position, and the raw
\* derivative is taken per unit of time
OEF_track(f, current, now, ad, a) ==
    LET raw == <<current[1] - f.x[1], current[2] - f.x[2]>>
        dx  == OEF_mix(ad, raw, f.dx)
        x   == OEF_mix(a, current, f.x)
    IN  [f |-> [f EXCEPT !.x = x, !.dx = dx, !.last_time = <<now>>], out |-> x]

\* OneEuroFilter.update
OEF_update(f, current, now, ad, a) ==
    IF f.x = None THEN OEF_acquire(f, current, now)
    ELSE OEF_track(f, current, now, ad, a)

\* one call smoother.update(value, timestamp)
FltUpdate ==
    \E value \in SampleSet, now \in 0..MaxStamp, ad \in AlphaSet, a \in AlphaSet :
        LET r == OEF_update(smoother, value, now, ad, a)
        IN  /\ smoother.last_time # None => now >= smoother.last_time[1]
            /\ smoother.x # None => flt_last.tracked < MaxTrack
            /\ smoother' = r.f
            /\ flt_last' = [op |-> "update", before |-> smoother, value |-> value,
                            out |-> r.out,
                            first |-> flt_last.op \in {"init", "reset"},
                            tracked |-> IF smoother.x = None THEN 0
                                        ELSE flt_last.tracked + 1]
            /\ flt_streak' =
                 IF smoother.x # None THEN 0
                 ELSE IF smoother.candidate # None
                         /\ Dist2(value, smoother.candidate)
                              < smoother.reacquire_radius * smoother.reacquire_radius
                 THEN flt_streak + 1
                 ELSE 1

\* one call smoother.reset()
FltReset ==
    /\ flt_last.op = "update"
    /\ smoother' = OEF_reset(smoother)
    /\ flt_last' = [op |-> "reset", before |-> smoother, value |-> None, out |-> None,
                    first |-> FALSE, tracked |-> 0]
    /\ flt_streak' = 0

NextFilter == (FltUpdate \/ FltReset) /\ UNCHANGED <<sideVars, thrVars, appVars>>

-----------------------------------------------------------------------------
(* IrBlobDetector, detection.py:265-291.  A camera frame is modelled by the    *)
(* contours OpenCV finds in it: a sequence of [center, area, intensity].       *)

min_blob_area == 5
max_blob_area == 500

\* the ranking key of lines 117 and 290, (0.7 * intensity + 0.3 * area) times 10
Score(b) == 7 * b.intensity + 3 * b.area

RemoveAt(s, i) == SubSeq(s, 1, i - 1) \o SubSeq(s, i + 1, Len(s))

\* list.sort(key, reverse=True): descending and stable
RECURSIVE SortByScore(_)
SortByScore(s) ==
    IF s = <<>> THEN <<>>
    ELSE LET i == CHOOSE i \in 1..Len(s) :
                      \A j \in 1..Len(s) :
                          \/ Score(s[j]) < Score(s[i])
                          \/ Score(s[j]) = Score(s[i]) /\ j >= i
         IN  <<s[i]>> \o SortByScore(RemoveAt(s, i))

\* confidence of line 288, in thousandths
Confidence(c) ==
    LET v == (c.intensity * 700) \div 255 + (c.area * 300) \div max_blob_area
    IN  IF v > 1000 THEN 1000 ELSE v

\* IrBlobDetector.find_blobs
find_blobs(frame) ==
    LET ok(c) == min_blob_area <= c.area /\ c.area <= max_blob_area
        blob(c) == [center |-> c.center, area |-> c.area,
                    intensity |-> c.intensity, confidence |-> Confidence(c)]
        kept == SelectSeq(frame, ok)
    IN  SortByScore([i \in 1..Len(kept) |-> blob(kept[i])])

-----------------------------------------------------------------------------
(* BlobTracker, detection.py:56-122.  self._tracks is a dict, read in the      *)
(* order its keys were inserted: a sequence of [id, pos, count, blob].         *)

MaxUpdates == 4
MaxPersistence == 3

\* association_radius ** 2 for the default radius of 20 px
association_radius_sq == 400

\* BlobTracker.__init__ (lines 62-71)
BT_init(persistence_frames) ==
    [persistence_frames |-> persistence_frames, tracks |-> <<>>, next_id |-> 0]

\* lines 88-96: the place in unmatched of the blob a track at pos takes, the
\* first of the nearest ones strictly inside the radius, 0 when there is none
BT_best(pos, unmatched) ==
    LET d(i) == Dist2(pos, unmatched[i].center)
        near == {i \in 1..Len(unmatched) : d(i) < association_radius_sq}
    IN  IF near = {} THEN 0
        ELSE CHOOSE i \in near :
                 \A j \in near : d(j) > d(i) \/ (d(j) = d(i) /\ j >= i)

\* a matching that would carry a track with no blob through the frame
RECURSIVE BT_match_coast(_, _, _)
BT_match_coast(tracks, unmatched, updated) ==
    IF tracks = <<>> THEN [unmatched |-> unmatched, updated |-> updated]
    ELSE LET t == Head(tracks)
             i == BT_best(t.pos, unmatched)
         IN  IF i = 0 THEN BT_match_coast(Tail(tracks), unmatched, Append(updated, t))
             ELSE BT_match_coast(Tail(tracks), RemoveAt(unmatched, i),
                                 Append(updated, [id |-> t.id,
                                                  pos |-> unmatched[i].center,
                                                  count |-> t.count + 1,
                                                  blob |-> unmatched[i]]))

\* lines 88-101: the tracks, in order, each take their nearest blob from what
\* the tracks before them left; a track that finds none is dropped
RECURSIVE BT_match(_, _, _)
BT_match(tracks, unmatched, updated) ==
    IF tracks = <<>> THEN [unmatched |-> unmatched, updated |-> updated]
    ELSE LET t == Head(tracks)
             i == BT_best(t.pos, unmatched)
         IN  IF i = 0 THEN BT_match(Tail(tracks), unmatched, updated)
             ELSE BT_match(Tail(tracks), RemoveAt(unmatched, i),
                           Append(updated, [id |-> t.id,
                                            pos |-> unmatched[i].center,
                                            count |-> t.count + 1,
                                            blob |-> unmatched[i]]))

\* BlobTracker.update: the tracker afterwards and the list returned
BT_update(bt, blobs) ==
    IF blobs = <<>> THEN [bt |-> [bt EXCEPT !.tracks = <<>>], out |-> <<>>]
    ELSE LET m == BT_match(bt.tracks, blobs, <<>>)
             fresh == [k \in 1..Len(m.unmatched) |->
                          [id |-> bt.next_id + k - 1,
                           pos |-> m.unmatched[k].center,
                           count |-> 1,
                           blob |-> m.unmatched[k]]]
             tracks == m.updated \o fresh
             seen(t) == t.count >= bt.persistence_frames
             persistent == SelectSeq(tracks, seen)
         IN  [bt |-> [bt EXCEPT !.tracks = tracks,
                                !.next_id = @ + Len(m.unmatched)],
              out |-> SortByScore([k \in 1..Len(persistent) |-> persistent[k].blob])]

\* BlobTracker.reset
BT_reset(bt) == [bt EXCEPT !.tracks = <<>>]

\* Two light sources: A moves between x = 5 and x = 20, 15 px apart, B rests at
\* x = 30.  They are told apart by their intensity.
SourceA(x) == [center |-> <<x, 0>>, area |-> 40, intensity |-> 80,
               confidence |-> Confidence([area |-> 40, intensity |-> 80])]
SourceB == [center |-> <<30, 0>>, area |-> 40, intensity |-> 50,
            confidence |-> Confidence([area |-> 40, intensity |-> 50])]
Sources == {80, 50}
TrackerFrames ==
    {<<>>, <<SourceB>>}
    \cup UNION {{<<SourceA(x)>>, <<SourceA(x), SourceB>>, <<SourceB, SourceA(x)>>} :
                x \in {5, 20}}

Shows(frame, src) == \E i \in 1..Len(frame) : frame[i].intensity = src

\* the longest run of detections, one in each of the latest frames and each
\* closer than the radius to the one before, that ends at the blob at place i
Chain(frame, i, before) ==
    LET near == {j \in 1..Len(before.frame) :
                     Dist2(before.frame[j].center, frame[i].center)
                         < association_radius_sq}
    IN  1 + (IF near = {} THEN 0
             ELSE LET j == CHOOSE j \in near :
                               \A k \in near : before.chain[k] <= before.chain[j]
                  IN  before.chain[j])

\* the positions of the blobs of a frame
Centres(frame) == {frame[i].center : i \in 1..Len(frame)}

\* the positions of the tracks that find no blob of the frame within the radius
Missed(tracks, frame) ==
    {tracks[k].pos : k \in {j \in 1..Len(tracks) :
                               \A i \in 1..Len(frame) :
                                   Dist2(tracks[j].pos, frame[i].center)
                                       >= association_radius_sq}}

TrkStart(persistence_frames) ==
    /\ blob_tracker = BT_init(persistence_frames)
    /\ trk_last = [op |-> "init", calls |-> 0, frame |-> <<>>, out |-> <<>>,
                   chain |-> <<>>, age |-> [src \in Sources |-> 0],
                   before |-> <<>>, gone |-> {}, back |-> {}]

TrkUpdate ==
    /\ trk_last.calls < MaxUpdates
    /\ \E f \in TrackerFrames :
          LET r == BT_update(blob_tracker, f) IN
          /\ blob_tracker' = r.bt
          /\ trk_last' = [op |-> "update", calls |-> trk_last.calls + 1,
                          frame |-> f, out |-> r.out,
                          chain |-> [i \in 1..Len(f) |-> Chain(f, i, trk_last)],
                          age |-> [src \in Sources |->
                                      IF Shows(f, src) THEN trk_last.age[src] + 1
                                      ELSE 0],
                          before |-> blob_tracker.tracks,
                          gone |-> (trk_last.gone \cup Missed(blob_tracker.tracks, f))
                                      \ Centres(f),
                          back |-> {i \in 1..Len(f) : f[i].center \in trk_last.gone}]

TrkReset ==
    /\ blob_tracker' = BT_reset(blob_tracker)
    /\ trk_last' = [trk_last EXCEPT !.op = "reset", !.frame = <<>>, !.out = <<>>,
                                    !.chain = <<>>,
                                    !.age = [src \in Sources |-> 0],
                                    !.before = blob_tracker.tracks, !.back = {}]

NextTracker ==
    (TrkUpdate \/ TrkReset)
        /\ UNCHANGED <<thrVars, fltVars, appVars, quadVars, calVars, ptrVars, numVars>>

-----------------------------------------------------------------------------
(* numpy float32 arithmetic, as QuadFilter.__init__ uses it (detection.py:35). *)
(* A float32 is held as <<m, s>>, the number m / 2^s with |m| < 2^24, s >= 0   *)
(* and m odd unless s = 0.  Every operation rounds its exact result to 24      *)
(* significant bits, ties to even.                                             *)

Abs(n) == IF n < 0 THEN -n ELSE n
Sgn(n) == IF n < 0 THEN -1 ELSE IF n > 0 THEN 1 ELSE 0

Pow2(n) == 2 ^ n

RECURSIVE BitLen(_)
BitLen(n) == IF n = 0 THEN 0 ELSE 1 + BitLen(n \div 2)

RECURSIVE F32_norm(_, _)
F32_norm(m, s) ==
    IF s > 0 /\ m % 2 = 0 THEN F32_norm(m \div 2, s - 1) ELSE <<m, s>>

\* m / 2^s with the d lowest bits of |m| rounded away, half the last kept bit
\* going to the even neighbour
F32_cut(m, s, d, half) ==
    LET q == Abs(m) \div (2 * half)
        r == Abs(m) % (2 * half)
        n == Sgn(m) * (IF r > half \/ (r = half /\ q % 2 = 1) THEN q + 1 ELSE q)
    IN  IF d <= s THEN F32_norm(n, s - d) ELSE <<n * Pow2(d - s), 0>>

\* the exact number m / 2^s rounded to float32
F32_round(m, s) ==
    IF Abs(m) < 16777216 THEN F32_norm(m, s)
    ELSE F32_cut(m, s, BitLen(Abs(m)) - 24, Pow2(BitLen(Abs(m)) - 25))

F32_max(a, b) == IF a >= b THEN a ELSE b

\* x at the scale s >= x[2], as an integer
F32_at(x, s) == x[1] * Pow2(s - x[2])

F32_add(x, y) ==
    LET s == F32_max(x[2], y[2]) IN F32_round(F32_at(x, s) + F32_at(y, s), s)

F32_sub(x, y) ==
    LET s == F32_max(x[2], y[2]) IN F32_round(F32_at(x, s) - F32_at(y, s), s)

F32_mul(x, y) == F32_round(x[1] * y[1], x[2] + y[2])

\* np.float32(1.0 + expand_pct) for the default expand_pct of 0.12:
\* 9395241 / 2^23 = 1.12000000476837158203125
expand_factor == <<9395241, 23>>

\* the sign of a * b - c * d for |a|, |b|, |c|, |d| < 2^30, computed on limbs
\* of 15 bits so that no intermediate value leaves the 32-bit range
Limb == 32768

MulAbs(a, b) ==
    LET a1 == a \div Limb
        a0 == a % Limb
        b1 == b \div Limb
        b0 == b % Limb
        lo == a0 * b0
        mid == a1 * b0 + a0 * b1 + lo \div Limb
    IN  <<a1 * b1 + mid \div Limb, mid % Limb, lo % Limb>>

LessAbs(p, q) ==
    \/ p[1] < q[1]
    \/ p[1] = q[1] /\ p[2] < q[2]
    \/ p[1] = q[1] /\ p[2] = q[2] /\ p[3] < q[3]

SignDiff(a, b, c, d) ==
    LET sp == Sgn(a) * Sgn(b)
        sq == Sgn(c) * Sgn(d)
        P == MulAbs(Abs(a), Abs(b))
        Q == MulAbs(Abs(c), Abs(d))
    IN  IF sp # sq THEN (IF sp > sq THEN 1 ELSE -1)
        ELSE IF sp = 0 \/ P = Q THEN 0
        ELSE IF LessAbs(Q, P) THEN sp ELSE -sp

-----------------------------------------------------------------------------
(* Smoother, detection.py:428-499.  A coordinate held by the smoother is a     *)
(* float32 <<m, s>>, the number m / 2^s.  A sample and the factor are Python   *)
(* floats; the model hands them in as decimals, a sample coordinate as a       *)
(* number of tenths and the factor as a fraction <<n, d>>.                     *)

\* the least scale at which n / d has a mantissa of 24 bits
RECURSIVE F32_scale(_, _, _)
F32_scale(n, d, s) ==
    IF (n * Pow2(s)) \div d >= 8388608 THEN s ELSE F32_scale(n, d, s + 1)

\* np.float32 of the number n / d, 0 <= n: the nearest float32, half the last
\* bit going to the even neighbour
F32_of(n, d) ==
    IF n = 0 THEN <<0, 0>>
    ELSE LET s == F32_scale(n, d, 0)
             q == (n * Pow2(s)) \div d
             r == (n * Pow2(s)) % d
         IN  F32_norm(IF 2 * r > d \/ (2 * r = d /\ q % 2 = 1) THEN q + 1 ELSE q, s)

\* the float32 product of x and y, 0 <= x, 0 <= y, for mantissas of up to 24
\* bits each: the 48-bit product is held on limbs and rounded once
F32_mulw(x, y) ==
    LET P   == MulAbs(x[1], y[1])
        low == P[2] * Limb + P[3]
        s   == x[2] + y[2]
        d   == BitLen(P[1]) + 6
        q   == P[1] * Pow2(30 - d) + low \div Pow2(d)
        r   == low % Pow2(d)
        n   == IF r > Pow2(d - 1) \/ (r = Pow2(d - 1) /\ q % 2 = 1) THEN q + 1 ELSE q
    IN  IF P[1] = 0 THEN F32_round(low, s)
        ELSE IF d <= s THEN F32_norm(n, s - d)
        ELSE <<n * Pow2(d - s), 0>>

\* w * v + u * c on one axis, each product and the sum rounded to float32
\* (lines 471 and 488)
SM_axis(w, v, u, c) == F32_add(F32_mulw(w, v), F32_mulw(u, c))

SM_blend(w, v, u, c) == <<SM_axis(w, v[1], u, c[1]), SM_axis(w, v[2], u, c[2])>>

\* np.array(value, dtype=np.float32) (line 449)
SM_array(value) == <<F32_of(value[1], 10), F32_of(value[2], 10)>>

\* x on the grid of 1/16384, towards zero
SM_grid(x) ==
    IF x[2] <= 14 THEN x[1] * Pow2(14 - x[2])
    ELSE Sgn(x[1]) * (Abs(x[1]) \div Pow2(x[2] - 14))

\* np.linalg.norm(current - candidate) < self._reacquire_radius, 0.25 (lines
\* 466-467).  The distance is compared on the grid of 1/16384; the samples of
\* the model keep it further than that from the radius.
SM_within(current, candidate) ==
    LET dx == SM_grid(F32_sub(current[1], candidate[1]))
        dy == SM_grid(F32_sub(current[2], candidate[2]))
    IN  dx * dx + dy * dy < 4096 * 4096

\* Smoother.__init__ (lines 429-436).  max_step is None in every Smoother that
\* the repository builds (tests/test_detection.py:26), so the step limit of
\* lines 489-494 is never applied.
SM_init(factor, reacquire_frames) ==
    [factor |-> factor, max_step |-> None, reacquire_frames |-> reacquire_frames,
     value |-> None, candidate |-> None, candidate_frames |-> 0]

\* Smoother.reset (lines 438-442)
SM_reset(sm) == [sm EXCEPT !.value = None, !.candidate = None, !.candidate_frames = 0]

\* an update that would hand the sample on without blending it
SM_update_raw(sm, value) ==
    [sm |-> [sm EXCEPT !.value = SM_array(value), !.candidate = None,
                       !.candidate_frames = 0],
     out |-> SM_array(value)]

\* Smoother.update (lines 444-499): the smoother after the call and the value
\* returned, None while a reacquisition is in progress.  float() of a float32
\* is exact, so the pair returned is the pair stored.
SM_update(sm, value) ==
    LET current == SM_array(value)
    IN  IF sm.value = None
        THEN IF sm.reacquire_frames <= 0
             THEN [sm |-> [sm EXCEPT !.value = current], out |-> current]
             ELSE IF sm.candidate = None
             THEN [sm |-> [sm EXCEPT !.candidate = current, !.candidate_frames = 1],
                   out |-> None]
             ELSE IF SM_within(current, sm.candidate)
             THEN LET frames == sm.candidate_frames + 1
                      cand == SM_blend(F32_of(7, 10), sm.candidate,
                                       F32_of(3, 10), current)
                  IN  IF frames >= sm.reacquire_frames
                      THEN [sm |-> [sm EXCEPT !.value = cand, !.candidate = None,
                                              !.candidate_frames = 0],
                            out |-> cand]
                      ELSE [sm |-> [sm EXCEPT !.candidate = cand,
                                              !.candidate_frames = frames],
                            out |-> None]
             ELSE [sm |-> [sm EXCEPT !.candidate = current, !.candidate_frames = 1],
                   out |-> None]
        ELSE LET blended == SM_blend(F32_of(sm.factor[2] - sm.factor[1], sm.factor[2]),
                                     sm.value, F32_of(sm.factor[1], sm.factor[2]),
                                     current)
             IN  [sm |-> [sm EXCEPT !.value = blended, !.candidate = None,
                                    !.candidate_frames = 0],
                  out |-> blended]

\* blends in a row that the model follows
MaxSmooth == 3

\* samples, in tenths: the corners of the unit square and points that no
\* float32 holds exactly
SmSamples == {<<0, 0>>, <<10, 10>>, <<0, 10>>, <<3, 7>>, <<5, 3>>}
\* the factor of the test and of DetectionConfig.smoothing, and one half
SmFactors == {<<1, 4>>, <<1, 2>>}

SmStart(factor, reacquire_frames) ==
    ema = [sm |-> SM_init(factor, reacquire_frames), op |-> "init", value |-> None,
           out |-> None, before |-> None, first |-> FALSE, blends |-> 0]

\* one call update(value) on the smoother
SmUpdate ==
    \E value \in SmSamples :
        LET r == SM_update(ema.sm, value)
        IN  /\ ema.sm.value # None => ema.blends < MaxSmooth
            /\ ema' = [sm |-> r.sm, op |-> "update", value |-> value, out |-> r.out,
                       before |-> ema.sm.value,
                       first |-> ema.op \in {"init", "reset"},
                       blends |-> IF ema.sm.value = None THEN 0 ELSE ema.blends + 1]

\* one call reset() on the smoother
SmReset ==
    /\ ema.op = "update"
    /\ ema' = [sm |-> SM_reset(ema.sm), op |-> "reset", value |-> None, out |-> None,
               before |-> ema.sm.value, first |-> FALSE, blends |-> 0]

NextSmoother ==
    (SmUpdate \/ SmReset)
        /\ UNCHANGED <<thrVars, fltVars, appVars, trkVars, quadVars, calVars, ptrVars, fit, conf, ovl, clk, ses>>

-----------------------------------------------------------------------------
(* QuadFilter, detection.py:19-53.  The expanded contour is a 4 x 2 array of   *)
(* float32; scale is the least s at which each of its entries is a whole       *)
(* number of 1/2^s, and hull holds the entries as those whole numbers.         *)

\* the side of the line from o to a on which b lies: 1 left, -1 right, 0 on it
Cross(o, a, b) == SignDiff(a[1] - o[1], b[2] - o[2], a[2] - o[2], b[1] - o[1])

Min3(a, b, c) == IF a <= b /\ a <= c THEN a ELSE IF b <= c THEN b ELSE c
Max3(a, b, c) == IF a >= b /\ a >= c THEN a ELSE IF b >= c THEN b ELSE c

\* p inside or on the edge of the triangle a b c
InTriangle(p, a, b, c) ==
    LET d1 == Cross(a, b, p)
        d2 == Cross(b, c, p)
        d3 == Cross(c, a, p)
    IN  /\ ~((d1 < 0 \/ d2 < 0 \/ d3 < 0) /\ (d1 > 0 \/ d2 > 0 \/ d3 > 0))
        /\ Min3(a[1], b[1], c[1]) <= p[1] /\ p[1] <= Max3(a[1], b[1], c[1])
        /\ Min3(a[2], b[2], c[2]) <= p[2] /\ p[2] <= Max3(a[2], b[2], c[2])

\* pts.mean(axis=0) in float32: the four rows are added one after the other and
\* the sum is divided by 4 (line 38)
QF_mean(pts) ==
    LET sum(k) == F32_add(F32_add(F32_add(pts[1][k], pts[2][k]), pts[3][k]),
                          pts[4][k])
    IN  [k \in 1..2 |-> F32_norm(sum(k)[1], sum(k)[2] + 2)]

\* centroid + (pts - centroid) * (1.0 + expand_pct) in float32 (line 39)
QF_expand(pts, centroid) ==
    [i \in 1..4 |-> [k \in 1..2 |->
        F32_add(centroid[k],
                F32_mul(F32_sub(pts[i][k], centroid[k]), expand_factor))]]

\* the filter holding the contour (lines 42-44)
QF_make(contour) ==
    LET ss == {contour[i][k][2] : i \in 1..4, k \in 1..2}
        scale == CHOOSE s \in ss : \A t \in ss : t <= s
    IN  [contour |-> contour,
         scale |-> scale,
         hull |-> [i \in 1..4 |-> <<F32_at(contour[i][1], scale),
                                    F32_at(contour[i][2], scale)>>]]

\* QuadFilter.__init__ (lines 35-44) on vertices with whole-pixel coordinates
QF_init(quad_vertices) ==
    LET pts == [i \in 1..4 |-> [k \in 1..2 |-> <<quad_vertices[i][k], 0>>]]
    IN  QF_make(QF_expand(pts, QF_mean(pts)))

\* QuadFilter.contains: pointPolygonTest(convexHull(contour), point) >= 0, the
\* point inside or on the edge of the convex hull of the contour.  A point is in
\* the convex hull of four points exactly when it is in one of the triangles
\* spanned by three of them.
QF_contains(qf, point) ==
    LET p == <<point[1] * Pow2(qf.scale), point[2] * Pow2(qf.scale)>>
    IN  \E i \in 1..4 :
            LET t == RemoveAt(qf.hull, i) IN InTriangle(p, t[1], t[2], t[3])

\* QuadFilter.filter_blobs
QF_filter_blobs(qf, blobs) ==
    LET inside(b) == QF_contains(qf, b.center) IN SelectSeq(blobs, inside)

\* Vertices on the line y = 3x, two more corners and a point between them:
\* convex, non-convex and flat quadrilaterals
QuadPoints == {<<0, 0>>, <<1, 3>>, <<2, 6>>, <<3, 9>>, <<9, 0>>, <<0, 9>>, <<3, 3>>}

\* blob centres offered to the filter: a corner, a point inside, a point far off
QuadCentres == {<<0, 0>>, <<3, 3>>, <<30, 30>>}

QuadBlob(c) == [center |-> c, area |-> 40, intensity |-> 80,
                confidence |-> Confidence([area |-> 40, intensity |-> 80])]

QuadBlobLists ==
    {<<>>} \cup {<<QuadBlob(c)>> : c \in QuadCentres}
           \cup {<<QuadBlob(c), QuadBlob(d)>> : c \in QuadCentres, d \in QuadCentres}

MaxQueries == 1

\* no QuadFilter under test (vs empty), or QuadFilter(vs)
QuadStart(vs) ==
    /\ quad_pts = vs
    /\ quad_obj = IF vs = <<>> THEN None ELSE QF_init(vs)
    /\ quad_last = [op |-> "init", calls |-> 0, arg |-> <<>>, out |-> <<>>]

QfContains ==
    /\ quad_obj # None
    /\ quad_last.calls < MaxQueries
    /\ \E pt \in QuadPoints \cup QuadCentres :
          quad_last' = [op |-> "contains", calls |-> quad_last.calls + 1,
                        arg |-> pt, out |-> QF_contains(quad_obj, pt)]
    /\ UNCHANGED <<quad_pts, quad_obj>>

QfFilterBlobs ==
    /\ quad_obj # None
    /\ quad_last.calls < MaxQueries
    /\ \E blobs \in QuadBlobLists :
          quad_last' = [op |-> "filter_blobs", calls |-> quad_last.calls + 1,
                        arg |-> blobs, out |-> QF_filter_blobs(quad_obj, blobs)]
    /\ UNCHANGED <<quad_pts, quad_obj>>

NextQuad ==
    (QfContains \/ QfFilterBlobs)
        /\ UNCHANGED <<thrVars, fltVars, appVars, trkVars, calVars, ptrVars, numVars>>

-----------------------------------------------------------------------------
(* Calibration profiles, homography and projection (app.py:256-298)           *)

\* TARGET_ORDER of calibration.py:154-160 with the normalised targets in units
\* of 1/10000
TARGET_ORDER == << [name |-> "top_left",     normalized |-> <<350, 350>>],
                   [name |-> "top_right",    normalized |-> <<9650, 350>>],
                   [name |-> "bottom_right", normalized |-> <<9650, 9650>>],
                   [name |-> "bottom_left",  normalized |-> <<350, 9650>>] >>

\* the display of the model: ScreenBounds(width, height)
ScreenSize == <<200, 100>>

\* the profile run_calibration builds (calibration.py:528-615) from the four
\* camera points it collected; each point carries the intensity and the area
\* averaged over its dwell (lines 562-563), those of the pen at rest
MakeProfile(camera_points) ==
    [screen_size |-> ScreenSize,
     screen_origin |-> <<0, 0>>,
     points |-> [i \in 1..Len(camera_points) |->
        [name |-> TARGET_ORDER[i].name,
         camera_px |-> camera_points[i],
         screen_px |-> <<(TARGET_ORDER[i].normalized[1] * ScreenSize[1]) \div 10000,
                         (TARGET_ORDER[i].normalized[2] * ScreenSize[2]) \div 10000>>,
         normalized_screen |-> TARGET_ORDER[i].normalized,
         intensity |-> 80,
         area |-> 40]]]

\* the camera sees the screen as an axis-aligned rectangle; ProfileA is the
\* calibration on disk at start-up, ProfileB the outcome of a recalibration after
\* the camera was moved
ProfileA == MakeProfile(<< <<10, 10>>, <<103, 10>>, <<103, 103>>, <<10, 103>> >>)
ProfileB == MakeProfile(<< <<20, 10>>, <<113, 10>>, <<113, 103>>, <<20, 103>> >>)

\* a config file that lists three points only, as load_config reads it
\* (config.py:91-101)
ProfilePartial == MakeProfile(<< <<10, 10>>, <<103, 10>>, <<103, 103>> >>)

\* CalibrationProfile.camera_quad(): the camera points in target order, None for
\* a profile that is not complete
camera_quad(profile) ==
    IF Len(profile.points) = 4 THEN [i \in 1..4 |-> profile.points[i].camera_px]
    ELSE None

RECURSIVE SeqSum(_)
SeqSum(s) == IF s = <<>> THEN 0 ELSE s[1] + SeqSum(Tail(s))

\* run_calibration, lines 583-595, for the samples xs of the four points: does
\* v lie between max(floor, mean - 2.5 * std) and mean + 3.0 * std?  With S the
\* sum and Q the sum of the squares of the n samples, mean = S / n and
\* std = sqrt(n * Q - S * S) / n, so that both tests can be made on squares.
WithinLearned(xs, v, floor) ==
    LET n == Len(xs)
        S == SeqSum(xs)
        V == n * SeqSum([i \in 1..n |-> xs[i] * xs[i]]) - S * S
    IN  /\ v >= floor
        /\ n * v >= S \/ 4 * (S - n * v) * (S - n * v) <= 25 * V
        /\ n * v <= S \/ (n * v - S) * (n * v - S) <= 9 * V

\* the blob lies within learned_intensity_min..learned_intensity_max and
\* learned_area_min..learned_area_max of the profile (lines 592-595, 610-613)
LearnedAccepts(profile, b) ==
    /\ WithinLearned([i \in 1..Len(profile.points) |-> profile.points[i].intensity],
                     b.intensity, 1)
    /\ WithinLearned([i \in 1..Len(profile.points) |-> profile.points[i].area],
                     b.area, 3)

RECURSIVE Gcd(_, _)
Gcd(a, b) == IF b = 0 THEN Abs(a) ELSE Gcd(Abs(b), Abs(a) % Abs(b))

\* cv2.getPerspectiveTransform(source, dest) for a source and a dest that are
\* axis-aligned rectangles given as top-left, top-right, bottom-right,
\* bottom-left: the exact solution, as an integer matrix.  A homography acts up
\* to scale (projection divides by the third coordinate), so the matrix is held
\* with its entries divided by their common divisor instead of with H[3][3] = 1.
getPerspectiveTransform(source, dest) ==
    LET w  == source[3][1] - source[1][1]
        h  == source[3][2] - source[1][2]
        dw == dest[3][1] - dest[1][1]
        dh == dest[3][2] - dest[1][2]
        a  == dw * h
        c  == (dest[1][1] * w - source[1][1] * dw) * h
        e  == dh * w
        f  == (dest[1][2] * h - source[1][2] * dh) * w
        i  == w * h
        g  == Gcd(Gcd(Gcd(a, c), Gcd(e, f)), i)
    IN  << <<a \div g, 0, c \div g>>, <<0, e \div g, f \div g>>, <<0, 0, i \div g>> >>

\* RefurboardApp._rebuild_homography
rebuild_homography(cal) ==
    IF cal = None \/ Len(cal.points) < 4 THEN None
    ELSE getPerspectiveTransform([i \in 1..4 |-> cal.points[i].camera_px],
                                 [i \in 1..4 |-> cal.points[i].screen_px])

\* the quad filters of the two stored profiles, computed once
StoredFilters == [cal \in {ProfileA, ProfileB} |-> QF_init(camera_quad(cal))]

\* RefurboardApp._rebuild_filters
rebuild_filters(cal) ==
    IF cal = None \/ camera_quad(cal) = None THEN None
    ELSE IF cal \in DOMAIN StoredFilters THEN StoredFilters[cal]
    ELSE QF_init(camera_quad(cal))

\* One axis of _project (app.py:266-271): p / pw, divided by the screen size and
\* clipped by np.clip to [0, 1].  A coordinate is [nan, v]: numpy divides by 0
\* without raising, 0/0 is NaN and stays NaN through np.clip, p/0 is +inf or
\* -inf and is clipped to 1 or 0.
project_axis(p, pw, size) ==
    IF pw = 0
    THEN IF p = 0 THEN [nan |-> TRUE, v |-> 0]
         ELSE [nan |-> FALSE, v |-> IF p > 0 THEN 10000 ELSE 0]
    ELSE LET n == IF pw < 0 THEN -p ELSE p
             d == Abs(pw) * size
         IN  [nan |-> FALSE,
              v |-> IF n <= 0 THEN 0
                    ELSE IF n >= d THEN 10000
                    ELSE 100 * ((n * 100) \div d) + (((n * 100) % d) * 100) \div d]

\* Lines 264-271 of _project with _apply_field_correction (app.py:273-275).
\* The matrix is held up to scale; one whose last entry is 0 stands for the
\* matrix that a singular fit returns, entries of the order of 10^17 next to
\* H[3][3] = 1, so that its third coordinate is 1 where the others cancel.
project_through(h, cal, camera_point) ==
    LET px == h[1][1] * camera_point[1] + h[1][2] * camera_point[2] + h[1][3]
        py == h[2][1] * camera_point[1] + h[2][2] * camera_point[2] + h[2][3]
        pw == h[3][1] * camera_point[1] + h[3][2] * camera_point[2] + h[3][3]
        one == h[3][3] = 0 /\ pw = 0
    IN  << IF one THEN [nan |-> FALSE, v |-> IF px > 0 THEN 10000 ELSE 0]
           ELSE project_axis(px, pw, cal.screen_size[1]),
           IF one THEN [nan |-> FALSE, v |-> IF py > 0 THEN 10000 ELSE 0]
           ELSE project_axis(py, pw, cal.screen_size[2]) >>

\* a _project that would answer with the middle of the screen when the
\* homography or the profile is missing
project_uncalibrated(h, cal, camera_point) ==
    IF h = None \/ cal = None
    THEN << [nan |-> FALSE, v |-> 5000], [nan |-> FALSE, v |-> 5000] >>
    ELSE project_through(h, cal, camera_point)

\* RefurboardApp._project (app.py:256-272)
project(h, cal, camera_point) ==
    IF h = None \/ cal = None THEN None
    ELSE project_through(h, cal, camera_point)

-----------------------------------------------------------------------------
(* The configuration file, config.py:14-142.  An AppConfig is a record of its  *)
(* three parts; a Python tuple is a sequence, a float that may be NaN is       *)
(* [nan, v], and the JSON document in the file is a record of its keys, an     *)
(* array being [list |-> sequence].  A number keeps its value through          *)
(* json.dump and json.load; NaN is written and read back as NaN.               *)

\* CameraSettings(device_id=0) (config.py:37-43, 59)
DefaultCamera ==
    [device_id |-> 0, frame_width |-> 1280, frame_height |-> 720, fps |-> 30,
     mirror |-> FALSE]

\* DetectionSettings() (config.py:46-55), the fractions in hundredths
DefaultDetection ==
    [sensitivity |-> 65, hysteresis |-> 15, smoothing |-> 25, click_hold_ms |-> 120,
     min_blob_area |-> 5, max_blob_area |-> 500, min_move_px |-> 5]

\* default_config (config.py:75-76)
default_config ==
    [camera |-> DefaultCamera, detection |-> DefaultDetection, calibration |-> None]

\* list(t) and tuple(l)
PyList(t) == [list |-> t]
PyTuple(l) == l.list

\* save_config (config.py:115-142) at the time now: the document written
save_config(config, now) ==
    LET cal == config.calibration
        point(p) == [name |-> p.name, camera_px |-> PyList(p.camera_px),
                     screen_px |-> PyList(p.screen_px),
                     normalized_screen |-> PyList(p.normalized_screen)]
    IN  [camera |-> config.camera,
         detection |-> config.detection,
         calibration |->
            IF cal = None THEN None
            ELSE <<[screen_size |-> PyList(cal.screen_size),
                    screen_origin |-> PyList(cal.screen_origin),
                    monitor_name |-> cal.monitor_name,
                    monitor_index |-> cal.monitor_index,
                    completed_at |-> IF cal.completed_at = None \/ cal.completed_at = <<0>>
                                     THEN <<now>> ELSE cal.completed_at,
                    reprojection_error |-> cal.reprojection_error,
                    points |-> PyList([i \in 1..Len(cal.points) |-> point(cal.points[i])])]>>]

\* a load that would leave out the calibration profile
parse_config_short(payload) ==
    [camera |-> payload.camera, detection |-> payload.detection, calibration |-> None]

\* load_config (config.py:86-112) for the document of an existing file
parse_config(payload) ==
    LET doc == payload.calibration
        point(p) == [name |-> p.name, camera_px |-> PyTuple(p.camera_px),
                     screen_px |-> PyTuple(p.screen_px),
                     normalized_screen |-> PyTuple(p.normalized_screen)]
    IN  [camera |-> payload.camera,
         detection |-> payload.detection,
         calibration |->
            IF doc = None THEN None
            ELSE [screen_size |-> PyTuple(doc[1].screen_size),
                  screen_origin |-> PyTuple(doc[1].screen_origin),
                  monitor_name |-> doc[1].monitor_name,
                  monitor_index |-> doc[1].monitor_index,
                  completed_at |-> doc[1].completed_at,
                  reprojection_error |-> doc[1].reprojection_error,
                  points |-> [i \in 1..Len(PyTuple(doc[1].points)) |->
                                 point(PyTuple(doc[1].points)[i])]]]

\* load_config (config.py:79-112): the configuration returned and the file
\* afterwards; file is None while no file exists
load_config(file, now) ==
    IF file = None
    THEN [cfg |-> default_config, file |-> <<save_config(default_config, now)>>]
    ELSE [cfg |-> parse_config(file[1]), file |-> file]

\* a == b in Python for two configurations: equal part by part, and NaN is not
\* equal to NaN
HasNaN(config) ==
    /\ config.calibration # None
    /\ config.calibration.reprojection_error # None
    /\ config.calibration.reprojection_error[1].nan

ConfigEq(a, b) == a = b /\ ~HasNaN(a)

\* times of the saves
MaxSaveTime == 2

\* calibration profiles to save: none, and profiles of one point with the
\* completion time unset, zero or set and the reprojection error unset, a number
\* or NaN
ConfProfiles ==
    {None} \cup
    { [screen_size |-> <<200, 100>>, screen_origin |-> <<0, 0>>,
       monitor_name |-> <<"primary">>, monitor_index |-> <<0>>,
       completed_at |-> at, reprojection_error |-> err,
       points |-> << [name |-> "top_left", camera_px |-> <<10, 10>>,
                      screen_px |-> <<7, 3>>, normalized_screen |-> <<350, 350>>] >>] :
      at \in {None, <<0>>, <<5>>},
      err \in {None, <<[nan |-> FALSE, v |-> 0]>>, <<[nan |-> TRUE, v |-> 0]>>} }

ConfStart(file) ==
    conf = [config |-> None, file |-> file, op |-> "init", saved |-> None,
            saved_at |-> 0, file_was |-> file]

\* cfg = load_config()
CfgLoad ==
    \E now \in 1..MaxSaveTime :
        LET r == load_config(conf.file, now)
        IN  conf' = [conf EXCEPT !.config = <<r.cfg>>, !.file = r.file, !.op = "load",
                                 !.file_was = conf.file,
                                 !.saved = IF conf.op = "save" THEN conf.saved ELSE None]

\* the caller changes the configuration it holds: the sensitivity, as the test
\* does, and the calibration profile
CfgEdit ==
    /\ conf.config # None
    /\ \E s \in {65, 90}, cal \in ConfProfiles :
          conf' = [conf EXCEPT !.config = <<[conf.config[1] EXCEPT
                                               !.detection.sensitivity = s,
                                               !.calibration = cal]>>,
                               !.op = "edit", !.saved = None]

\* save_config(cfg)
CfgSave ==
    /\ conf.config # None
    /\ \E now \in 1..MaxSaveTime :
          conf' = [conf EXCEPT !.file = <<save_config(conf.config[1], now)>>,
                               !.op = "save", !.saved = conf.config,
                               !.saved_at = now, !.file_was = conf.file]

\* the file is removed
CfgRemove ==
    /\ conf.op \in {"load", "save"}
    /\ conf.file # None
    /\ conf' = [conf EXCEPT !.file = None, !.op = "remove", !.saved = None,
                            !.file_was = conf.file]

NextConfig ==
    (CfgLoad \/ CfgEdit \/ CfgSave \/ CfgRemove)
        /\ UNCHANGED <<thrVars, fltVars, appVars, trkVars, quadVars, calVars, ptrVars,
                       ema, fit, ovl, clk, ses>>

-----------------------------------------------------------------------------
(* The homography that run_calibration fits (calibration.py:569-580) for four  *)
(* camera points and four screen points of any shape.                          *)

\* 3 x 3 integer matrices: the common divisor of the entries, the matrix with
\* its entries divided by it and the last entry made positive where it is not 0
M3_gcd(m) ==
    Gcd(Gcd(Gcd(m[1][1], m[1][2]), Gcd(m[1][3], m[2][1])),
        Gcd(Gcd(m[2][2], m[2][3]), Gcd(Gcd(m[3][1], m[3][2]), m[3][3])))

M3_reduce(m) ==
    LET g == M3_gcd(m)
        s == IF m[3][3] < 0 THEN -1 ELSE 1
    IN  IF g = 0 THEN m ELSE [i \in 1..3 |-> [j \in 1..3 |-> s * (m[i][j] \div g)]]

M3_mul(a, b) ==
    [i \in 1..3 |-> [j \in 1..3 |->
        a[i][1] * b[1][j] + a[i][2] * b[2][j] + a[i][3] * b[3][j]]]

\* the adjugate, which is the inverse up to scale
M3_adj(m) ==
    << <<m[2][2] * m[3][3] - m[2][3] * m[3][2], m[1][3] * m[3][2] - m[1][2] * m[3][3],
         m[1][2] * m[2][3] - m[1][3] * m[2][2]>>,
       <<m[2][3] * m[3][1] - m[2][1] * m[3][3], m[1][1] * m[3][3] - m[1][3] * m[3][1],
         m[1][3] * m[2][1] - m[1][1] * m[2][3]>>,
       <<m[2][1] * m[3][2] - m[2][2] * m[3][1], m[1][2] * m[3][1] - m[1][1] * m[3][2],
         m[1][1] * m[2][2] - m[1][2] * m[2][1]>> >>

\* the projective map that takes the corners (0,0), (1,0), (1,1), (0,1) of the
\* unit square to q[1], q[2], q[3], q[4], up to scale
SquareToQuad(q) ==
    LET dx1 == q[2][1] - q[3][1]
        dx2 == q[4][1] - q[3][1]
        sx  == q[1][1] - q[2][1] + q[3][1] - q[4][1]
        dy1 == q[2][2] - q[3][2]
        dy2 == q[4][2] - q[3][2]
        sy  == q[1][2] - q[2][2] + q[3][2] - q[4][2]
        D   == dx1 * dy2 - dx2 * dy1
        G   == sx * dy2 - dx2 * sy
        H   == dx1 * sy - sx * dy1
    IN  << <<(q[2][1] - q[1][1]) * D + G * q[2][1],
             (q[4][1] - q[1][1]) * D + H * q[4][1], q[1][1] * D>>,
           <<(q[2][2] - q[1][2]) * D + G * q[2][2],
             (q[4][2] - q[1][2]) * D + H * q[4][2], q[1][2] * D>>,
           <<G, H, D>> >>

\* the one projective map that takes source[i] to dest[i] for the four i, up to
\* scale
QuadToQuad(source, dest) ==
    M3_reduce(M3_mul(M3_reduce(SquareToQuad(dest)),
                     M3_reduce(M3_adj(M3_reduce(SquareToQuad(source))))))

\* what cv::solve leaves when the elimination meets a zero pivot: the eight
\* unknowns at 0, to which getPerspectiveTransform adds H[3][3] = 1
Unsolved == << <<0, 0, 0>>, <<0, 0, 0>>, <<0, 0, 1>> >>

\* cv2.getPerspectiveTransform(source, dest) for quadrilaterals of any shape:
\* the matrices it can return.  OpenCV solves the eight linear equations of the
\* four pairs for the matrix with H[3][3] = 1, in double precision, by LU
\* elimination.  Their solution is the map through the four pairs divided by
\* its last entry; the matrix is held up to scale, as above.  When the last
\* entry of that map is 0 (the camera pixel (0, 0) is sent to infinity) the
\* equations have no solution: the elimination meets a zero pivot, or rounding
\* has left a pivot that is not 0 and the unknowns come out as the map
\* multiplied by a number of the order of 10^17.
PerspectiveTransform(source, dest) ==
    LET m == QuadToQuad(source, dest)
    IN  IF m[3][3] = 0 THEN {Unsolved, m} ELSE {m}

\* homography @ vec for the camera point cam (calibration.py:575-576)
Reproject(h, cam) ==
    [k \in 1..3 |-> h[k][1] * cam[1] + h[k][2] * cam[2] + h[k][3]]

\* no three of the four points lie on one line
NoThreeCollinear(q) ==
    \A i \in 1..4, j \in 1..4, k \in 1..4 :
        (i < j /\ j < k) => Cross(q[i], q[j], q[k]) # 0

\* camera points: a grid coarse enough for the products of the fit to stay in
\* the 32-bit range
CamPoints == {<<1, 1>>, <<3, 1>>, <<6, 2>>, <<2, 2>>, <<5, 1>>, <<1, 4>>, <<5, 5>>}

\* the screen points of the four targets (calibration.py:530-554)
ScreenPoints == [i \in 1..4 |-> ProfileA.points[i].screen_px]

\* the frame sizes camera.width x camera.height of the fits
FrameSizes == {<<4, 4>>, <<12, 8>>, <<7, 5>>}

\* _detect_orientation (calibration.py:721-755).  nx and ny are held by their
\* signs: (tl_x - cx) / cx with cx = frame_width / 2 has the sign of
\* 2 * tl_x - frame_width when cx > 0, and is 0 otherwise.
detect_orientation(camera_points, frame_width, frame_height) ==
    IF camera_points = <<>> THEN 0
    ELSE LET nx == IF frame_width > 0
                   THEN Sgn(2 * camera_points[1][1] - frame_width) ELSE 0
             ny == IF frame_height > 0
                   THEN Sgn(2 * camera_points[1][2] - frame_height) ELSE 0
         IN  IF nx < 0 /\ ny < 0 THEN 0
             ELSE IF nx > 0 /\ ny < 0 THEN 90
             ELSE IF nx > 0 /\ ny > 0 THEN 180
             ELSE 270

\* the camera points handed to _project: points of the grid and the points in
\* which opposite sides of some of the quadrilaterals meet
ProjPoints == {<<0, 0>>, <<1, 3>>, <<1, 2>>, <<4, 0>>, <<5, 2>>, <<3, 3>>, <<1, 1>>,
               <<6, 2>>}

FitStart(source, dest, frame) ==
    fit = [source |-> source, dest |-> dest, frame |-> frame, homography |-> None,
           projected |-> <<>>, orientation |-> None, shot |-> None]

\* run_calibration from the fit to the reprojection of the training points
\* (calibration.py:569-580)
FitHomography ==
    /\ fit.homography = None
    /\ fit.shot = None
    /\ \E h \in PerspectiveTransform(fit.source, fit.dest) :
           fit' = [fit EXCEPT !.homography = h,
                              !.projected = [i \in 1..4 |-> Reproject(h, fit.source[i])]]
    /\ UNCHANGED <<thrVars, fltVars, appVars, trkVars, quadVars, calVars, ptrVars, ema, conf, ovl, clk, ses>>

\* run_calibration detecting the orientation after the fit (calibration.py:599)
DetectOrientation ==
    /\ fit.homography # None
    /\ fit.orientation = None
    /\ fit' = [fit EXCEPT !.orientation =
                   <<detect_orientation(fit.source, fit.frame[1], fit.frame[2])>>]
    /\ UNCHANGED <<thrVars, fltVars, appVars, trkVars, quadVars, calVars, ptrVars, ema, conf, ovl, clk, ses>>

\* one call _project(camera_point), before a calibration or after one, with
\* or without a calibration profile in the configuration
Project ==
    /\ fit.shot = None
    /\ fit.homography = None \/ fit.orientation # None
    /\ \E c \in ProjPoints, cal \in {None, ProfileA} :
           fit' = [fit EXCEPT !.shot = << [point |-> c, profile |-> cal # None,
                                           out |-> project(fit.homography, cal, c)] >>]
    /\ UNCHANGED <<thrVars, fltVars, appVars, trkVars, quadVars, calVars, ptrVars, ema, conf, ovl, clk, ses>>

NextFit == FitHomography \/ DetectOrientation \/ Project

-----------------------------------------------------------------------------
(* CalibrationOverlay and its overlay process, calibration.py:183-435.  The    *)
(* object lives in the core; _overlay_process runs the window in a process of  *)
(* its own; a duplex pipe joins the two.                                       *)

\* calls of _on_escape in the overlay process that a run follows
MaxEscapes == 3
\* commands waiting in the pipe to the overlay process
MaxPipe == 2
\* the progress values of the target commands the model sends
Progress == 1..2

\* CalibrationOverlay.__init__ (lines 184-199) and the head of _overlay_process
\* (lines 256-308): the process in its main loop, nothing in the pipe
OvlStart ==
    ovl = [_cancelled |-> FALSE,   \* CalibrationOverlay._cancelled
           listener |-> TRUE,      \* the keyboard listener is running
           closing |-> FALSE,      \* close() has sent its command and is joining
           conn_closed |-> FALSE,  \* the core's end of the pipe is closed
           down |-> <<>>,          \* commands on their way to the process
           up |-> <<>>,            \* messages on their way to the core
           cancelled |-> FALSE,    \* the flag of _overlay_process
           stage |-> "mainloop",   \* the process: mainloop, destroyed, exited
           drawn |-> 0,            \* progress of the target on the canvas
           sent |-> 0,             \* calls conn.send("cancelled") so far
           escapes |-> 0,          \* calls of _on_escape so far
           result |-> None,        \* what the last poll_cancelled returned
           once |-> FALSE]         \* a call before the last one returned true

\* _send_cancel without its flag test
send_cancel_again(o) ==
    [o EXCEPT !.cancelled = TRUE,
              !.sent = @ + 1,
              !.up = IF o.conn_closed THEN @ ELSE Append(@, "cancelled")]

\* _send_cancel (lines 312-320); the send fails, silently, when the core has
\* closed its end
send_cancel(o) ==
    IF o.cancelled THEN o
    ELSE [o EXCEPT !.cancelled = TRUE,
                   !.sent = @ + 1,
                   !.up = IF o.conn_closed THEN @ ELSE Append(@, "cancelled")]

\* _on_escape (lines 322-331): root.quit and root.destroy end the main loop
on_escape(o) ==
    [send_cancel(o) EXCEPT !.escapes = @ + 1,
                           !.stage = IF @ = "mainloop" THEN "destroyed" ELSE @]

\* the loop of _pump_pipe (lines 392-425) over the commands that wait
RECURSIVE pump_pipe(_)
pump_pipe(o) ==
    IF o.down = <<>> THEN o
    ELSE LET message == Head(o.down)
             rest == [o EXCEPT !.down = Tail(@)]
         IN  CASE message.type = "target" ->
                      pump_pipe([rest EXCEPT !.drawn = message.progress])
               [] message.type = "close" -> [rest EXCEPT !.stage = "destroyed"]
               [] message.type = "cancel" -> on_escape(rest)
               [] OTHER -> pump_pipe(rest)

\* CalibrationOverlay._send (lines 236-240): nothing is sent, and nothing is
\* raised, once either end of the pipe is closed
OV_send(o, payload) ==
    IF o.conn_closed \/ o.stage = "exited" THEN o
    ELSE [o EXCEPT !.down = Append(@, payload)]

\* CalibrationOverlay.poll_cancelled (lines 208-218): the overlay after the
\* call and the value returned.  poll() raises OSError on a closed connection;
\* at the end of the data of a pipe whose other end is closed recv() raises
\* EOFError.
OV_poll_cancelled(o) ==
    IF o._cancelled THEN [o |-> o, r |-> TRUE]
    ELSE IF o.conn_closed THEN [o |-> [o EXCEPT !._cancelled = TRUE], r |-> TRUE]
    ELSE LET got == (\E i \in 1..Len(o.up) : o.up[i] = "cancelled")
                        \/ o.stage = "exited"
         IN  [o |-> [o EXCEPT !._cancelled = got, !.up = <<>>], r |-> got]

\* Escape or the closing of the window reaches a binding of the overlay
\* process (lines 333-339: seven bindings and the window protocol)
OvEscape ==
    /\ ovl.stage # "exited"
    /\ ovl.escapes < MaxEscapes
    /\ ovl' = on_escape(ovl)

\* the timer of the main loop runs _pump_pipe (lines 390-428)
OvPump ==
    /\ ovl.stage = "mainloop"
    /\ ovl.down # <<>>
    /\ ovl' = pump_pipe(ovl)

\* root.mainloop returns and the process closes its end (lines 429-435)
OvExit ==
    /\ ovl.stage = "destroyed"
    /\ ovl' = [ovl EXCEPT !.stage = "exited", !.down = <<>>]

\* CalibrationOverlay.set_target (lines 200-206)
OvSetTarget ==
    /\ Len(ovl.down) < MaxPipe
    /\ \E p \in Progress : ovl' = OV_send(ovl, [type |-> "target", progress |-> p])

\* CalibrationOverlay._on_key_press (lines 242-246) on Escape; returning False
\* stops the listener
OvKeyPress ==
    /\ ovl.listener
    /\ Len(ovl.down) < MaxPipe
    /\ ovl' = [OV_send(ovl, [type |-> "cancel"]) EXCEPT !._cancelled = TRUE,
                                                       !.listener = FALSE]

\* one call of CalibrationOverlay.poll_cancelled
OvPoll ==
    LET call == OV_poll_cancelled(ovl) IN
    ovl' = [call.o EXCEPT !.result = <<call.r>>,
                          !.once = ovl.once \/ ovl.result = <<TRUE>>]

\* CalibrationOverlay.close, lines 221-223: the command is sent and the caller
\* waits for the process
OvClose ==
    /\ ~ovl.closing
    /\ ~ovl.conn_closed
    /\ Len(ovl.down) < MaxPipe
    /\ ovl' = [OV_send(ovl, [type |-> "close"]) EXCEPT !.closing = TRUE]

\* CalibrationOverlay.close, lines 224-234: the process has ended or is
\* terminated after 2 s, the connection is closed and the listener stopped
OvJoined ==
    /\ ovl.closing
    /\ ovl' = [ovl EXCEPT !.closing = FALSE, !.stage = "exited", !.down = <<>>,
                          !.conn_closed = TRUE, !.listener = FALSE]

NextOverlay ==
    (OvEscape \/ OvPump \/ OvExit \/ OvSetTarget \/ OvKeyPress \/ OvPoll \/ OvClose
        \/ OvJoined)
        /\ UNCHANGED <<thrVars, fltVars, appVars, trkVars, quadVars, calVars, ptrVars,
                       ema, fit, conf, clk, ses>>

-----------------------------------------------------------------------------
(* PointerDriver, pointer.py:285-401.  A call returns the driver after it and  *)
(* the events it sent to the backend, each [op, at].                           *)

click_hold_ms == 120
min_move_px == 5

\* PointerDriver.__init__
PD_init ==
    [click_active |-> FALSE, click_started |-> 0, last_target |-> None,
     deadzone_skips |-> 0, backend |-> "platform"]

\* a reset that would also forget the last target
PD_reset_position_all(pd) == [pd EXCEPT !.deadzone_skips = 0, !.last_target = None]

\* PointerDriver.reset_position
PD_reset_position(pd) == [pd EXCEPT !.deadzone_skips = 0]

\* int(normalized * width), int(normalized * height) of lines 328-332
ScreenPixel(normalized, cal) ==
    << (normalized[1] * cal.screen_size[1]) \div 10000,
       (normalized[2] * cal.screen_size[2]) \div 10000 >>

\* a move that would force a request through only at the third skip
PD_move_late(pd, normalized, cal) ==
    LET x == ScreenPixel(normalized, cal)[1]
        y == ScreenPixel(normalized, cal)[2]
        go == [pd |-> [pd EXCEPT !.last_target = <<x, y>>, !.deadzone_skips = 0],
               ev |-> << [op |-> "move", at |-> <<x, y>>] >>]
    IN  IF pd.last_target = None THEN go
        ELSE LET dx == x - pd.last_target[1]
                 dy == y - pd.last_target[2]
             IN  IF dx * dx + dy * dy > min_move_px * min_move_px THEN go
                 ELSE IF Abs(dx) > 0 \/ Abs(dy) > 0
                 THEN IF pd.deadzone_skips + 1 >= 3 THEN go
                      ELSE [pd |-> [pd EXCEPT !.deadzone_skips = @ + 1], ev |-> <<>>]
                 ELSE [pd |-> pd, ev |-> <<>>]

\* PointerDriver.move
PD_move(pd, normalized, cal) ==
    LET x == ScreenPixel(normalized, cal)[1]
        y == ScreenPixel(normalized, cal)[2]
        go == [pd |-> [pd EXCEPT !.last_target = <<x, y>>, !.deadzone_skips = 0],
               ev |-> << [op |-> "move", at |-> <<x, y>>] >>]
    IN  IF pd.last_target = None THEN go
        ELSE LET dx == x - pd.last_target[1]
                 dy == y - pd.last_target[2]
             IN  IF dx * dx + dy * dy > min_move_px * min_move_px THEN go
                 ELSE IF Abs(dx) > 0 \/ Abs(dy) > 0
                 THEN IF pd.deadzone_skips + 1 >= 2 THEN go
                      ELSE [pd |-> [pd EXCEPT !.deadzone_skips = @ + 1], ev |-> <<>>]
                 ELSE [pd |-> pd, ev |-> <<>>]

\* an update_click that would release a held press only when its hold time is up
PD_update_click_sticky(pd, pressed, now) ==
    LET target == IF pd.last_target = None THEN <<0, 0>> ELSE pd.last_target
    IN  IF pressed /\ ~pd.click_active
        THEN [pd |-> [pd EXCEPT !.click_active = TRUE, !.click_started = now],
              ev |-> << [op |-> "press", at |-> target] >>]
        ELSE IF pd.click_active /\ now - pd.click_started >= click_hold_ms
        THEN [pd |-> [pd EXCEPT !.click_active = FALSE],
              ev |-> << [op |-> "release", at |-> target] >>]
        ELSE [pd |-> pd, ev |-> <<>>]

\* PointerDriver.update_click at time now (milliseconds)
PD_update_click(pd, pressed, now) ==
    LET target == IF pd.last_target = None THEN <<0, 0>> ELSE pd.last_target
    IN  IF pressed /\ ~pd.click_active
        THEN [pd |-> [pd EXCEPT !.click_active = TRUE, !.click_started = now],
              ev |-> << [op |-> "press", at |-> target] >>]
        ELSE IF ~pressed /\ pd.click_active
        THEN [pd |-> [pd EXCEPT !.click_active = FALSE],
              ev |-> << [op |-> "release", at |-> target] >>]
        ELSE IF pd.click_active /\ now - pd.click_started >= click_hold_ms
        THEN [pd |-> [pd EXCEPT !.click_active = FALSE],
              ev |-> << [op |-> "release", at |-> target] >>]
        ELSE [pd |-> pd, ev |-> <<>>]

-----------------------------------------------------------------------------
(* PointerDriver with a backend that can fail.  fail says what the backend     *)
(* calls of one operation do: "none" all succeed, "first" the call on the      *)
(* current backend raises and the call on the fallback succeeds, "both" the    *)
(* call on the fallback raises too.                                            *)

Failures == {"none", "first", "both"}

\* try: self._backend.<op>(x, y) except: self._backend = _PynputBackend();
\* self._backend.<op>(x, y), as at lines 337-342, 355-360, 369-374 and 386-391
Backend_retry(pd, event, fail) ==
    IF fail = "none" THEN [pd |-> pd, ev |-> <<event>>, raised |-> FALSE]
    ELSE IF fail = "first"
    THEN [pd |-> [pd EXCEPT !.backend = "pynput"], ev |-> <<event>>,
          raised |-> FALSE]
    ELSE [pd |-> [pd EXCEPT !.backend = "pynput"], ev |-> <<>>, raised |-> TRUE]

\* self._backend.release(x, y) as at lines 396 and 400, outside any try
Backend_release(pd, event, fail) ==
    IF fail = "none" THEN [pd |-> pd, ev |-> <<event>>, raised |-> FALSE]
    ELSE [pd |-> pd, ev |-> <<>>, raised |-> TRUE]

\* PointerDriver.move (lines 326-379) with a backend that can fail
PD_move_or_raise(pd, normalized, cal, fail) ==
    LET x == ScreenPixel(normalized, cal)[1]
        y == ScreenPixel(normalized, cal)[2]
        go(p) == LET c == Backend_retry(p, [op |-> "move", at |-> <<x, y>>], fail)
                 IN  IF c.raised THEN c
                     ELSE [c EXCEPT !.pd.last_target = <<x, y>>,
                                    !.pd.deadzone_skips = 0]
        stay(p) == [pd |-> p, ev |-> <<>>, raised |-> FALSE]
    IN  IF pd.last_target = None THEN go(pd)
        ELSE LET dx == x - pd.last_target[1]
                 dy == y - pd.last_target[2]
             IN  IF dx * dx + dy * dy > min_move_px * min_move_px THEN go(pd)
                 ELSE IF Abs(dx) > 0 \/ Abs(dy) > 0
                 THEN LET counted == [pd EXCEPT !.deadzone_skips = @ + 1]
                      IN  IF counted.deadzone_skips >= 2 THEN go(counted)
                          ELSE stay(counted)
                 ELSE stay(pd)

\* PointerDriver.update_click (lines 381-401) with a backend that can fail
PD_update_click_or_raise(pd, pressed, now, fail) ==
    LET target == IF pd.last_target = None THEN <<0, 0>> ELSE pd.last_target
        release == LET c == Backend_release(pd, [op |-> "release", at |-> target],
                                            fail)
                   IN  IF c.raised THEN c ELSE [c EXCEPT !.pd.click_active = FALSE]
    IN  IF pressed /\ ~pd.click_active
        THEN LET c == Backend_retry(pd, [op |-> "press", at |-> target], fail)
             IN  IF c.raised THEN c
                 ELSE [c EXCEPT !.pd.click_active = TRUE, !.pd.click_started = now]
        ELSE IF ~pressed /\ pd.click_active THEN release
        ELSE IF pd.click_active /\ now - pd.click_started >= click_hold_ms
        THEN release
        ELSE [pd |-> pd, ev |-> <<>>, raised |-> FALSE]

-----------------------------------------------------------------------------
(* The camera frames of the model, each the contours the detector finds       *)

\* no marker: a speck too small to be a blob and a dim ambient reflection
FrameNoise == << [center |-> <<50, 50>>, area |-> 2,  intensity |-> 90],
                 [center |-> <<60, 40>>, area |-> 30, intensity |-> 3] >>
\* the pen
FramePen   == << [center |-> <<30, 40>>, area |-> 40, intensity |-> 80] >>
\* the pen one camera pixel further, small and bright, beside a large dimmer
\* reflection
FrameTwo   == << [center |-> <<31, 41>>, area |-> 10,  intensity |-> 80],
                 [center |-> <<60, 60>>, area |-> 200, intensity |-> 50] >>

FrameSet == {FrameNoise, FramePen, FrameTwo}

\* config.detection.min_intensity, doubled (the default of app.py:165 is 3.5)
min_intensity_x2 == 7

AboveFloor(b) == 2 * b.intensity >= min_intensity_x2

\* the frame holds no blob that passes the detector and the intensity floor
Blank(frame) == SelectSeq(find_blobs(frame), AboveFloor) = <<>>

\* the pause after a calibration, app.py:383, in milliseconds
cooldown_ms == 1500
\* the clock of the model advances in steps of one pause
TickMs == cooldown_ms
Now == clock * TickMs

-----------------------------------------------------------------------------
(* The application: construction (app.py:29-92)                               *)

NoLocals ==
    [frame |-> <<>>, seq |-> 0, pointer_blocked |-> FALSE, blobs |-> <<>>,
     click_active |-> FALSE, normalized |-> None, intensity |-> 0]

\* the record of a tracking iteration: the frame it took (seq), how it went
\* (kind), the blobs that qualified, the blob selected, the sample fed to the
\* smoother, the driver's target when it began, whether move() was called, with
\* which target in pixels, and whether that was the first call since the pen was
\* lost, whether a press was
\* held when update_click was called, the argument of update_click, the backend
\* events sent, whether one of them was a move or a press sent while a
\* calibration was running or cooling down, and whether the iteration has
\* finished.  lost and prev outlive
\* the iteration: a no-blob iteration happened since the last move() call; the
\* kind of the iteration before.
NoIteration ==
    [seq |-> 0, kind |-> "none", blocked |-> FALSE, qualifying |-> <<>>,
     best |-> None, sample |-> None, target0 |-> None, move_called |-> FALSE,
     target |-> None,
     after_loss |-> FALSE, held |-> FALSE, pressed |-> FALSE, ev |-> <<>>,
     quad_read |-> <<>>,
     done |-> FALSE, lost |-> FALSE, prev |-> "none"]

ThrStart(sensitivity, hysteresis) ==
    /\ click_threshold = AT_init(sensitivity, hysteresis)
    /\ thr_last = [op |-> "init", before |-> None, signal |-> 0, first |-> FALSE]

FltStart(reacquire_frames, reacquire_radius) ==
    /\ smoother = OEF_init(reacquire_frames, reacquire_radius)
    /\ flt_last = [op |-> "init", before |-> None, value |-> None, out |-> None,
                   first |-> FALSE, tracked |-> 0]
    /\ flt_streak = 0

\* the rest of RefurboardApp.__init__: cal is the calibration load_config found,
\* started the outcome of _start_camera
\* before the first call on a PointerDriver on its own: sent is the target of
\* the last move the backend got; skipped counts the requests with a non-zero
\* delta suppressed since the last move sent, fresh counts them since the last
\* move sent or reset_position; skipped_was and fresh_was are the counts before
\* the call
PtrStart ==
    pd_last = [op |-> "init", calls |-> 0, target |-> None, before |-> PD_init,
               ev |-> <<>>, sent |-> None, skipped |-> 0, fresh |-> 0,
               skipped_was |-> 0, fresh_was |-> 0]

-----------------------------------------------------------------------------
(* PointerDriver.update_click (pointer.py:381-401) statement by statement.  The *)
(* tracking worker calls it at the end of every iteration (app.py:216-219),    *)
(* the calibration worker calls update_click(False) in the finally block of    *)
(* _calibrate (app.py:382); the driver has no lock.                            *)

\* the clock of this run advances MaxClkTicks times, half of click_hold_ms each
MaxClkTicks == 2
\* events sent to the backend in a run
MaxClkEvents == 5

Callers == {"tracking", "calibration"}

ClkStart ==
    clk = [click_active |-> FALSE, click_started |-> 0, ticks |-> 0, log |-> <<>>,
           th |-> [c \in Callers |-> [pc |-> "idle", pressed |-> FALSE, now |-> 0]]]

ClkNow == clk.ticks * (click_hold_ms \div 2)

\* a caller enters update_click: line 382 reads the time
ClkCall ==
    /\ Len(clk.log) < MaxClkEvents
    /\ \E c \in Callers, pressed \in BOOLEAN :
          /\ clk.th[c].pc = "idle"
          /\ c = "calibration" => ~pressed
          /\ clk' = [clk EXCEPT !.th[c] = [pc |-> "test1", pressed |-> pressed,
                                           now |-> ClkNow]]

\* one of the tests of lines 384, 394 and 398, each reading _click_active
ClkTest ==
    \E c \in Callers :
        LET my == clk.th[c]
            to(pc) == clk' = [clk EXCEPT !.th[c].pc = pc]
        IN  CASE my.pc = "test1" ->
                     to(IF my.pressed /\ ~clk.click_active THEN "press" ELSE "test2")
              [] my.pc = "test2" ->
                     to(IF ~my.pressed /\ clk.click_active THEN "release" ELSE "test3")
              [] my.pc = "test3" ->
                     to(IF clk.click_active
                           /\ my.now - clk.click_started >= click_hold_ms
                        THEN "release" ELSE "idle")
              [] OTHER -> FALSE

\* the backend call of line 387, 396 or 400
ClkBackend ==
    \E c \in Callers :
        /\ clk.th[c].pc \in {"press", "release"}
        /\ clk' = [clk EXCEPT !.log = Append(@, clk.th[c].pc),
                              !.th[c].pc = IF @ = "press" THEN "set" ELSE "clear"]

\* the assignments of lines 392-393, 397 or 401
ClkStore ==
    \E c \in Callers :
        \/ /\ clk.th[c].pc = "set"
           /\ clk' = [clk EXCEPT !.click_active = TRUE,
                                 !.click_started = clk.th[c].now,
                                 !.th[c].pc = "idle"]
        \/ /\ clk.th[c].pc = "clear"
           /\ clk' = [clk EXCEPT !.click_active = FALSE, !.th[c].pc = "idle"]

ClkTick ==
    /\ clk.ticks < MaxClkTicks
    /\ clk' = [clk EXCEPT !.ticks = @ + 1]

NextClick ==
    (ClkCall \/ ClkTest \/ ClkBackend \/ ClkStore \/ ClkTick)
        /\ UNCHANGED <<thrVars, fltVars, appVars, trkVars, quadVars, calVars, ptrVars,
                       ema, fit, conf, ovl, ses>>

-----------------------------------------------------------------------------
(* RefurboardApp.run_calibration (app.py:351-355) and _calibrate (357-387)     *)
(* statement by statement.  The UI thread calls run_calibration; each call may *)
(* start a worker; a worker is at one of the lines of _calibrate.              *)

\* calibration workers started in a run
MaxWorkers == 3

Workers == 1..MaxWorkers

SesStart ==
    ses = [calibration_thread |-> 0,   \* self._calibration_thread, 0 for None
           calibrating |-> FALSE,      \* self._calibrating
           calibration_abort |-> FALSE,
           camera |-> TRUE,            \* self.camera_stream is not None
           ui |-> "idle",              \* the UI thread inside run_calibration
           errors |-> 0,               \* calls of run_calibration that raised
           overlay |-> {},             \* the workers whose overlay is open
           w |-> [n \in Workers |-> [pc |-> "none", cleared |-> FALSE]]]

\* Thread.is_alive: started and not yet ended
SesAlive(n) == ses.w[n].pc \notin {"none", "created", "dead"}

SesNext == 1 + Cardinality({n \in Workers : ses.w[n].pc # "none"})

\* select_camera (app.py:99-115) with a device that opens or does not
SesCamera ==
    /\ ses.ui = "idle"
    /\ ses' = [ses EXCEPT !.camera = ~@]

\* run_calibration, line 352: the first operand of `and` reads the attribute
SesCheck ==
    /\ ses.ui = "idle"
    /\ SesNext <= MaxWorkers
    /\ ses' = [ses EXCEPT !.ui = IF ses.calibration_thread = 0 THEN "create"
                                 ELSE "is_alive"]

\* line 352: the second operand reads the attribute again and calls is_alive;
\* on None the call raises AttributeError; with a live worker line 353 returns
SesIsAlive ==
    /\ ses.ui = "is_alive"
    /\ ses' = IF ses.calibration_thread = 0
              THEN [ses EXCEPT !.ui = "idle", !.errors = 1]
              ELSE IF SesAlive(ses.calibration_thread)
              THEN [ses EXCEPT !.ui = "idle"]
              ELSE [ses EXCEPT !.ui = "create"]

\* line 354
SesCreate ==
    /\ ses.ui = "create"
    /\ ses' = [ses EXCEPT !.calibration_thread = SesNext,
                          !.w[SesNext].pc = "created",
                          !.ui = "start"]

\* line 355: the attribute is read once more and the thread started
SesStartThread ==
    /\ ses.ui = "start"
    /\ ses' = IF ses.calibration_thread = 0
              THEN [ses EXCEPT !.ui = "idle", !.errors = 1]
              ELSE [ses EXCEPT !.w[ses.calibration_thread].pc = "begin",
                               !.ui = "idle"]

\* _calibrate, lines 358-363: without a camera stream the worker clears the
\* attribute and returns; it has set no flag
SesBegin ==
    \E n \in Workers :
        /\ ses.w[n].pc = "begin"
        /\ ses' = IF ses.camera
                  THEN [ses EXCEPT !.w[n].pc = "set"]
                  ELSE [ses EXCEPT !.calibration_thread = 0,
                                   !.w[n] = [pc |-> "dead", cleared |-> TRUE]]

\* lines 364 and 365, one flag each
SesFlags ==
    \E n \in Workers :
        \/ /\ ses.w[n].pc = "set"
           /\ ses' = [ses EXCEPT !.calibrating = TRUE, !.w[n].pc = "clear"]
        \/ /\ ses.w[n].pc = "clear"
           /\ ses' = [ses EXCEPT !.calibration_abort = FALSE, !.w[n].pc = "open"]

\* shutdown or a caller asking for the abort (app.py:126)
SesAbort ==
    /\ ~ses.calibration_abort
    /\ \E n \in Workers : SesAlive(n)
    /\ ses' = [ses EXCEPT !.calibration_abort = TRUE]

\* calibration.run_calibration (calibration.py:505-623): the overlay is opened,
\* then the run ends, completed, cancelled or failed, and its finally clause
\* has closed the overlay
SesSession ==
    \E n \in Workers :
        \/ /\ ses.w[n].pc = "open"
           /\ ses' = [ses EXCEPT !.overlay = @ \cup {n}, !.w[n].pc = "run"]
        \/ /\ ses.w[n].pc = "run"
           /\ ses' = [ses EXCEPT !.overlay = @ \ {n}, !.w[n].pc = "finally"]

\* line 382, update_click(False): with a press held, backend.release is called
\* outside any try (pointer.py:396) and a failure of the backend leaves the
\* finally block and ends the thread; line 383 otherwise
SesFinally ==
    \E n \in Workers, raises \in BOOLEAN :
        /\ ses.w[n].pc = "finally"
        /\ ses' = [ses EXCEPT !.w[n].pc = IF raises THEN "dead" ELSE "uncalibrating"]

\* lines 384, 385 and 386, then the print of line 387 and the end of the thread
SesClear ==
    \E n \in Workers :
        \/ /\ ses.w[n].pc = "uncalibrating"
           /\ ses' = [ses EXCEPT !.calibrating = FALSE, !.w[n].pc = "unabort"]
        \/ /\ ses.w[n].pc = "unabort"
           /\ ses' = [ses EXCEPT !.calibration_abort = FALSE,
                                 !.w[n] = [pc |-> "unthread", cleared |-> TRUE]]
        \/ /\ ses.w[n].pc = "unthread"
           /\ ses' = [ses EXCEPT !.calibration_thread = 0, !.w[n].pc = "print"]
        \/ /\ ses.w[n].pc = "print"
           /\ ses' = [ses EXCEPT !.w[n].pc = "dead"]

NextSession ==
    (SesCamera \/ SesCheck \/ SesIsAlive \/ SesCreate \/ SesStartThread \/ SesBegin
        \/ SesFlags \/ SesAbort \/ SesSession \/ SesFinally \/ SesClear)
        /\ UNCHANGED <<thrVars, fltVars, appVars, trkVars, quadVars, calVars, ptrVars,
                       ema, fit, conf, ovl, clk>>

FitStartDefault ==
    FitStart([i \in 1..4 |-> ProfileA.points[i].camera_px], ScreenPoints, <<4, 4>>)

NumStart == SmStart(<<1, 4>>, 0) /\ FitStartDefault /\ ConfStart(None) /\ OvlStart /\ ClkStart /\ SesStart

AppStart(cal, started) ==
    /\ pointer_driver = PD_init
    /\ calibration = cal
    /\ homography = rebuild_homography(cal)
    /\ quad_filter = rebuild_filters(cal)
    /\ calibrating = FALSE
    /\ calibration_abort = FALSE
    /\ pointer_resume_time = 0
    /\ telemetry = [pointer |-> None, blob_intensity |-> 0, click_active |-> FALSE]
    /\ camera_stream = IF started THEN <<0>> ELSE None
    /\ cam_frame = None
    /\ t_pc = "loop"
    /\ t_local = NoLocals
    /\ c_pc = "idle"
    /\ clock = 0
    /\ it = NoIteration
    /\ frame_log = <<>>
    /\ acted_on = {}
    /\ n_calibrated = 0

-----------------------------------------------------------------------------
(* The capture worker, CameraStream._loop (camera.py:128-140)                 *)

\* a capture worker that would keep the first frame until it has been replaced
\* by none: the slot is filled only when it is empty
Capture_keep ==
    /\ camera_stream # None
    /\ Len(frame_log) < MaxFrames
    /\ \E f \in FrameSet :
          /\ cam_frame' = IF cam_frame = None
                          THEN [blobs |-> f, seq |-> Len(frame_log) + 1]
                          ELSE cam_frame
          /\ frame_log' = Append(frame_log, Blank(f))
    /\ UNCHANGED <<sideVars, thrVars, fltVars, pointer_driver, calibration, homography,
                   quad_filter, calibrating, calibration_abort, pointer_resume_time,
                   telemetry, camera_stream, t_pc, t_local, c_pc, clock, it,
                   acted_on, n_calibrated>>

\* one frame read and published in the single slot; a failed read changes nothing
Capture ==
    /\ camera_stream # None
    /\ Len(frame_log) < MaxFrames
    /\ \E f \in FrameSet :
          /\ cam_frame' = [blobs |-> f, seq |-> Len(frame_log) + 1]
          /\ frame_log' = Append(frame_log, Blank(f))
    /\ UNCHANGED <<sideVars, thrVars, fltVars, pointer_driver, calibration, homography,
                   quad_filter, calibrating, calibration_abort, pointer_resume_time,
                   telemetry, camera_stream, t_pc, t_local, c_pc, clock, it,
                   acted_on, n_calibrated>>

\* time passes
Tick ==
    /\ clock < MaxClock
    /\ clock' = clock + 1
    /\ UNCHANGED <<sideVars, thrVars, fltVars, pointer_driver, calibration, homography,
                   quad_filter, calibrating, calibration_abort, pointer_resume_time,
                   telemetry, camera_stream, cam_frame, t_pc, t_local, c_pc, it,
                   frame_log, acted_on, n_calibrated>>

-----------------------------------------------------------------------------
(* The tracking worker, RefurboardApp._tracking_loop (app.py:139-247)         *)

\* max(moving_blobs, key=lambda b: b.intensity): the first of the brightest
max_intensity(blobs) ==
    blobs[CHOOSE i \in 1..Len(blobs) :
            \A j \in 1..Len(blobs) :
                \/ blobs[j].intensity < blobs[i].intensity
                \/ blobs[j].intensity = blobs[i].intensity /\ j >= i]

\* the head of the detector's ranking: the highest weighted score
highest_score(blobs) == blobs[1]

\* the selection of line 181
select_best(blobs) == max_intensity(blobs)

\* line 152: self._calibrating.is_set() or now < self._pointer_resume_time
Blocked == calibrating \/ Now < pointer_resume_time

\* lines 141-152: the stream, its latest frame (a copy; the slot keeps it), the
\* time and pointer_blocked.  Without a stream or a frame the loop sleeps and
\* starts over.
T_Loop ==
    /\ t_pc = "loop"
    /\ IF ui_pc # "running"
       THEN t_pc' = "done" /\ UNCHANGED <<t_local, it>>
       ELSE IF camera_stream = None \/ cam_frame = None
       THEN UNCHANGED <<t_pc, t_local, it>>
       ELSE LET blocked == Blocked
            IN  /\ t_pc' = "detect"
                /\ t_local' = [NoLocals EXCEPT !.frame = cam_frame.blobs,
                                               !.seq = cam_frame.seq,
                                               !.pointer_blocked = blocked]
                /\ it' = [NoIteration EXCEPT !.seq = cam_frame.seq,
                                             !.blocked = blocked,
                                             !.target0 = pointer_driver.last_target,
                                             !.lost = it.lost,
                                             !.prev = it.kind]
    /\ UNCHANGED <<sideVars, thrVars, fltVars, pointer_driver, calibration, homography,
                   quad_filter, calibrating, calibration_abort, pointer_resume_time,
                   telemetry, camera_stream, cam_frame, c_pc, clock, frame_log,
                   acted_on, n_calibrated>>

\* lines 155-172: detection, the camera-space quad, the intensity floor
T_Detect ==
    /\ t_pc = "detect"
    /\ LET raw == find_blobs(t_local.frame)
           in_quad == IF raw # <<>> /\ quad_filter # None
                      THEN QF_filter_blobs(quad_filter, raw) ELSE raw
           blobs == SelectSeq(in_quad, AboveFloor)
       IN  /\ t_local' = [t_local EXCEPT !.blobs = blobs]
           /\ it' = [it EXCEPT !.qualifying = blobs,
                               !.quad_read = IF raw # <<>> THEN <<quad_filter>>
                                             ELSE <<>>]
    /\ t_pc' = "track"
    /\ UNCHANGED <<sideVars, thrVars, fltVars, pointer_driver, calibration, homography,
                   quad_filter, calibrating, calibration_abort, pointer_resume_time,
                   telemetry, camera_stream, cam_frame, c_pc, clock, frame_log,
                   acted_on, n_calibrated>>

\* lines 175-214: select the pen, project it, smooth it, move the pointer; or,
\* with no blob left, reset the smoother and the driver
T_Track ==
    /\ t_pc = "track"
    /\ t_pc' = "click"
    /\ IF t_local.blobs # <<>>
       THEN LET best == select_best(t_local.blobs)
                \* the stored profiles are rectangles: no camera point is sent to
                \* infinity and both coordinates have a value
                at == project(homography, calibration, best.center)
                projected == IF at = None THEN None ELSE <<at[1].v, at[2].v>>
            IN  IF projected # None
                THEN \E ad \in AlphaSet, a \in AlphaSet :
                       LET r == OEF_update(smoother, projected, Now, ad, a)
                           go == r.out # None /\ calibration # None
                                   /\ ~t_local.pointer_blocked
                           m == IF go THEN PD_move(pointer_driver, r.out, calibration)
                                ELSE [pd |-> pointer_driver, ev |-> <<>>]
                       IN  /\ smoother.x # None => flt_last.tracked < MaxTrack
                           /\ smoother' = r.f
                           /\ flt_last' = [op |-> "update", before |-> smoother,
                                           value |-> projected, out |-> r.out,
                                           first |-> flt_last.op \in {"init", "reset"},
                                           tracked |-> IF smoother.x = None THEN 0
                                                       ELSE flt_last.tracked + 1]
                           /\ pointer_driver' = m.pd
                           /\ t_local' = [t_local EXCEPT
                                            !.intensity = best.intensity,
                                            !.normalized = r.out,
                                            !.click_active = r.out # None]
                           /\ it' = [it EXCEPT
                                       !.kind = IF r.out # None THEN "value"
                                                ELSE "reacquiring",
                                       !.best = best,
                                       !.sample = projected,
                                       !.move_called = go,
                                       !.target = IF go THEN ScreenPixel(r.out, calibration)
                                                  ELSE None,
                                       !.after_loss = go /\ it.lost,
                                       !.lost = IF go THEN FALSE ELSE it.lost,
                                       !.ev = m.ev,
                                       !.quad_read = <<>>]
                ELSE /\ t_local' = [t_local EXCEPT !.intensity = best.intensity]
                     /\ it' = [it EXCEPT !.kind = "unprojected", !.best = best,
                                         !.quad_read = <<>>]
                     /\ UNCHANGED <<smoother, flt_last, pointer_driver>>
       ELSE /\ smoother' = OEF_reset(smoother)
            /\ flt_last' = [op |-> "reset", before |-> smoother, value |-> None,
                            out |-> None, first |-> FALSE, tracked |-> 0]
            /\ pointer_driver' = PD_reset_position(pointer_driver)
            /\ it' = [it EXCEPT !.kind = "no_blobs", !.lost = TRUE,
                                !.quad_read = <<>>]
            /\ UNCHANGED t_local
    /\ UNCHANGED <<sideVars, thrVars, flt_streak, calibration, homography, quad_filter,
                   calibrating, calibration_abort, pointer_resume_time, telemetry,
                   camera_stream, cam_frame, c_pc, clock, frame_log, acted_on,
                   n_calibrated>>

\* lines 216-220 and 247: update_click, the telemetry, the end of the iteration
T_Click ==
    /\ t_pc = "click"
    /\ t_pc' = "loop"
    /\ LET pressed == IF t_local.pointer_blocked THEN FALSE
                      ELSE t_local.click_active
           r == PD_update_click(pointer_driver, pressed, Now)
           ev == it.ev \o r.ev
       IN  /\ pointer_driver' = r.pd
           /\ it' = [it EXCEPT !.held = pointer_driver.click_active,
                               !.pressed = pressed, !.ev = ev, !.done = TRUE]
           /\ acted_on' = IF \E i \in 1..Len(ev) : ev[i].op \in {"move", "press"}
                          THEN acted_on \cup {it.seq} ELSE acted_on
    /\ telemetry' = [pointer |-> t_local.normalized,
                     blob_intensity |-> t_local.intensity,
                     click_active |-> t_local.click_active]
    /\ UNCHANGED <<sideVars, thrVars, fltVars, calibration, homography, quad_filter,
                   calibrating, calibration_abort, pointer_resume_time,
                   camera_stream, cam_frame, t_local, c_pc, clock, frame_log,
                   n_calibrated>>

-----------------------------------------------------------------------------
(* The calibration worker, RefurboardApp._calibrate (app.py:351-402)          *)

\* run_calibration and lines 358-365: a worker starts unless one is alive; with
\* no camera stream it ends at once
RunCalibration ==
    /\ c_pc = "idle"
    /\ n_calibrated < MaxCalibrations
    /\ n_calibrated' = n_calibrated + 1
    /\ IF camera_stream = None
       THEN UNCHANGED <<calibrating, calibration_abort, c_pc>>
       ELSE /\ calibrating' = TRUE
            /\ calibration_abort' = FALSE
            /\ c_pc' = "collect"
    /\ UNCHANGED <<sideVars, thrVars, fltVars, pointer_driver, calibration, homography,
                   quad_filter, pointer_resume_time, telemetry, camera_stream,
                   cam_frame, t_pc, t_local, clock, it, frame_log, acted_on>>

\* calibration.run_calibration (calibration.py:507-619): the four targets are
\* collected and the profile is stored in the config (lines 616-617), or the
\* session is cancelled and CalibrationError is raised
C_Collect ==
    /\ c_pc = "collect"
    /\ \E completed \in BOOLEAN :
          IF completed
          THEN calibration' = ProfileB /\ c_pc' = "homography"
          ELSE UNCHANGED calibration /\ c_pc' = "finally"
    /\ UNCHANGED <<sideVars, thrVars, fltVars, pointer_driver, homography, quad_filter,
                   calibrating, calibration_abort, pointer_resume_time, telemetry,
                   camera_stream, cam_frame, t_pc, t_local, clock, it, frame_log,
                   acted_on, n_calibrated>>

\* _after_calibration: the config is read back and the homography rebuilt
C_Homography ==
    /\ c_pc = "homography"
    /\ homography' = rebuild_homography(calibration)
    /\ c_pc' = "filters"
    /\ UNCHANGED <<sideVars, thrVars, fltVars, pointer_driver, calibration, quad_filter,
                   calibrating, calibration_abort, pointer_resume_time, telemetry,
                   camera_stream, cam_frame, t_pc, t_local, clock, it, frame_log,
                   acted_on, n_calibrated>>

\* _after_calibration: the quad filter rebuilt
C_Filters ==
    /\ c_pc = "filters"
    /\ quad_filter' = rebuild_filters(calibration)
    /\ blob_tracker' = BT_reset(blob_tracker)
    /\ c_pc' = "finally"
    /\ UNCHANGED <<trk_last, quadVars, calVars, ptrVars, numVars, thrVars, fltVars,
                   pointer_driver, calibration, homography,
                   calibrating, calibration_abort, pointer_resume_time, telemetry,
                   camera_stream, cam_frame, t_pc, t_local, clock, it, frame_log,
                   acted_on, n_calibrated>>

\* the finally block of _calibrate (lines 381-386)
C_Finally ==
    /\ c_pc = "finally"
    /\ pointer_driver' = PD_update_click(pointer_driver, FALSE, Now).pd
    /\ pointer_resume_time' = Now + cooldown_ms
    /\ calibrating' = FALSE
    /\ calibration_abort' = FALSE
    /\ c_pc' = "idle"
    /\ UNCHANGED <<sideVars, thrVars, fltVars, calibration, homography, quad_filter,
                   telemetry, camera_stream, cam_frame, t_pc, t_local, clock, it,
                   frame_log, acted_on, n_calibrated>>

-----------------------------------------------------------------------------
(* A calibration run step by step: _calibrate (app.py:357-387), run_calibration *)
(* (calibration.py:505-623), _collect_point (626-710), the overlay (183-253)   *)
(* and shutdown (app.py:124-137).  Inside _collect_point camera coordinates    *)
(* are held in units of 1/SubPx pixel, so that the halving of line 689 is      *)
(* exact.                                                                      *)

MaxCalFrames == 4
SubPx == 64

dwell_frames == 7
settle_radius == 6
min_distance == 40
cal_min_intensity == 4

\* the pen resting on the camera point of target i
PenAt(i) == << [center |-> camera_quad(ProfileB)[i], area |-> 40, intensity |-> 80] >>

InSubPx(p) == <<SubPx * p[1], SubPx * p[2]>>

\* a test that would let every candidate through
too_close_never(candidate, existing) == FALSE

\* _too_close (lines 713-718)
too_close(candidate, existing) ==
    \E i \in 1..Len(existing) :
        Dist2(InSubPx(candidate), existing[i])
            < min_distance * min_distance * SubPx * SubPx

\* the locals of run_calibration; dwell_frames is its parameter (line 510)
\* the locals dwell and last_hit when _collect_point starts (lines 637-638);
\* frames is the set of camera frames counted in dwell
CP_init == [dwell |-> 0, last_hit |-> None, frames |-> {}]

\* one pass of the loop of _collect_point after the cancel test (lines 651-710):
\* the locals afterwards and the point returned, None to go round again
CP_iterate(cp, frame, existing_points, dwell_target) ==
    IF frame = None THEN [cp |-> cp, collected |-> None]
    ELSE LET bright(b) == b.intensity >= cal_min_intensity
             apart(b) == ~too_close(b.center, existing_points)
             blobs == SelectSeq(SelectSeq(find_blobs(frame.blobs), bright), apart)
         IN  IF blobs = <<>>
             THEN [cp |-> [cp EXCEPT !.dwell = 0, !.frames = {}], collected |-> None]
             ELSE LET c == InSubPx(blobs[1].center)
                      near == cp.last_hit # None
                              /\ Dist2(c, cp.last_hit)
                                     <= settle_radius * settle_radius * SubPx * SubPx
                      next == IF near
                              THEN [dwell |-> cp.dwell + 1,
                                    last_hit |->
                                        <<cp.last_hit[1] + (c[1] - cp.last_hit[1]) \div 2,
                                          cp.last_hit[2] + (c[2] - cp.last_hit[2]) \div 2>>,
                                    frames |-> cp.frames \cup {frame.seq}]
                              ELSE [dwell |-> 1, last_hit |-> c, frames |-> {frame.seq}]
                  IN  [cp |-> next,
                       collected |-> IF next.dwell >= dwell_target
                                     THEN next.last_hit ELSE None]

NoRun ==
    [index |-> 0, camera_points |-> <<>>, cp |-> CP_init, overlay |-> 0,
     dwell_frames |-> dwell_frames, raised |-> "none",
     before |-> [calibration |-> None, homography |-> None, quad_filter |-> None,
                 disk |-> None]]

\* before any calibration run: cal is the calibration in the config file
CalStart(cal) ==
    /\ k_local = NoRun
    /\ overlays = <<>>
    /\ overlay_registry = {}
    /\ disk = cal
    /\ ui_pc = "running"

\* what no step of a calibration run touches
calRest == <<thrVars, fltVars, trkVars, quadVars, ptrVars, numVars, pointer_driver, telemetry, t_pc,
             t_local, clock, it, frame_log, acted_on, pointer_resume_time>>

\* the camera worker during a calibration: the user holds the pen on the target
\* shown, or nothing is in view
K_Capture ==
    /\ camera_stream # None
    /\ (IF cam_frame = None THEN 0 ELSE cam_frame.seq) < MaxCalFrames
    /\ \E f \in {<<>>, PenAt(IF k_local.index \in 1..4 THEN k_local.index ELSE 1)} :
          cam_frame' = [blobs |-> f,
                        seq |-> 1 + (IF cam_frame = None THEN 0 ELSE cam_frame.seq)]
    /\ UNCHANGED <<calRest, calVars, calibration, homography, quad_filter, calibrating,
                   calibration_abort, camera_stream, c_pc, n_calibrated>>

\* RefurboardApp.run_calibration (app.py:351-355)
K_Start ==
    /\ ui_pc = "running"
    /\ c_pc = "idle"
    /\ n_calibrated < MaxCalibrations
    /\ n_calibrated' = n_calibrated + 1
    /\ c_pc' = "begin"
    /\ UNCHANGED <<calRest, calVars, calibration, homography, quad_filter, calibrating,
                   calibration_abort, camera_stream, cam_frame>>

\* _calibrate, lines 358-364
K_Begin ==
    /\ c_pc = "begin"
    /\ IF camera_stream = None
       THEN c_pc' = "idle" /\ UNCHANGED <<calibrating, k_local>>
       ELSE /\ calibrating' = TRUE
            /\ k_local' = [NoRun EXCEPT
                              !.before = [calibration |-> calibration,
                                          homography |-> homography,
                                          quad_filter |-> quad_filter,
                                          disk |-> disk]]
            /\ c_pc' = "clear"
    /\ UNCHANGED <<calRest, overlays, overlay_registry, disk, ui_pc, calibration,
                   homography, quad_filter, calibration_abort, camera_stream, cam_frame,
                   n_calibrated>>

\* _calibrate, line 365
K_ClearAbort ==
    /\ c_pc = "clear"
    /\ calibration_abort' = FALSE
    /\ c_pc' = "open"
    /\ UNCHANGED <<calRest, calVars, calibration, homography, quad_filter, calibrating,
                   camera_stream, cam_frame, n_calibrated>>

\* CalibrationOverlay.close (lines 220-234) on the overlays in ids
CloseOverlays(ids) ==
    /\ overlays' = [i \in 1..Len(overlays) |->
                       IF i \in ids THEN [overlays[i] EXCEPT !.closed = TRUE]
                       ELSE overlays[i]]
    /\ overlay_registry' = overlay_registry \ ids

\* K_Open without the close of line 517
K_Open_leak ==
    /\ c_pc = "open"
    /\ overlays' = Append(overlays, [closed |-> FALSE, cancelled |-> FALSE])
    /\ overlay_registry' = overlay_registry \cup {Len(overlays) + 1}
    /\ IF calibration_abort
       THEN /\ k_local' = [k_local EXCEPT !.overlay = Len(overlays) + 1,
                                          !.raised = "cancelled"]
            /\ c_pc' = "finally"
       ELSE /\ k_local' = [k_local EXCEPT !.overlay = Len(overlays) + 1, !.index = 1]
            /\ c_pc' = "target"
    /\ UNCHANGED <<calRest, disk, ui_pc, calibration, homography, quad_filter,
                   calibrating, calibration_abort, camera_stream, cam_frame,
                   n_calibrated>>

\* run_calibration, lines 513-518: the overlay is created and registered; with
\* the abort flag set it is closed again and CalibrationError raised
K_Open ==
    /\ c_pc = "open"
    /\ LET id == Len(overlays) + 1 IN
       IF calibration_abort
       THEN /\ overlays' = Append(overlays, [closed |-> TRUE, cancelled |-> FALSE])
            /\ UNCHANGED overlay_registry
            /\ k_local' = [k_local EXCEPT !.overlay = id, !.raised = "cancelled"]
            /\ c_pc' = "finally"
       ELSE /\ overlays' = Append(overlays, [closed |-> FALSE, cancelled |-> FALSE])
            /\ overlay_registry' = overlay_registry \cup {id}
            /\ k_local' = [k_local EXCEPT !.overlay = id, !.index = 1]
            /\ c_pc' = "target"
    /\ UNCHANGED <<calRest, disk, ui_pc, calibration, homography, quad_filter,
                   calibrating, calibration_abort, camera_stream, cam_frame,
                   n_calibrated>>

\* run_calibration, lines 528-539: the head of the loop over TARGET_ORDER
K_Target ==
    /\ c_pc = "target"
    /\ IF calibration_abort
       THEN k_local' = [k_local EXCEPT !.raised = "cancelled"] /\ c_pc' = "close"
       ELSE k_local' = [k_local EXCEPT !.cp = CP_init] /\ c_pc' = "sample"
    /\ UNCHANGED <<calRest, overlays, overlay_registry, disk, ui_pc, calibration,
                   homography, quad_filter, calibrating, calibration_abort,
                   camera_stream, cam_frame, n_calibrated>>

\* CalibrationOverlay.poll_cancelled (lines 208-218): Escape was pressed, or the
\* pipe was closed under the worker
poll_cancelled(id) == overlays[id].cancelled \/ overlays[id].closed

\* K_Sample writing the points collected so far to the config file
K_Sample_persist ==
    /\ c_pc = "sample"
    /\ IF poll_cancelled(k_local.overlay) \/ calibration_abort
       THEN /\ k_local' = [k_local EXCEPT !.raised = "cancelled"]
            /\ c_pc' = "close"
            /\ UNCHANGED disk
       ELSE LET r == CP_iterate(k_local.cp, cam_frame, k_local.camera_points,
                                k_local.dwell_frames)
            IN  IF r.collected = None
                THEN /\ k_local' = [k_local EXCEPT !.cp = r.cp]
                     /\ c_pc' = "sample"
                     /\ UNCHANGED disk
                ELSE /\ k_local' = [k_local EXCEPT
                                       !.cp = r.cp,
                                       !.camera_points = Append(@, r.collected),
                                       !.index = @ + 1]
                     /\ c_pc' = IF k_local.index = 4 THEN "close" ELSE "target"
                     /\ disk' = MakeProfile(<<r.collected>>)
    /\ UNCHANGED <<calRest, overlays, overlay_registry, ui_pc, calibration,
                   homography, quad_filter, calibrating, calibration_abort,
                   camera_stream, cam_frame, n_calibrated>>

\* one pass of the loop of _collect_point, and lines 551-565 of run_calibration
\* when it returns
K_Sample ==
    /\ c_pc = "sample"
    /\ IF poll_cancelled(k_local.overlay) \/ calibration_abort
       THEN k_local' = [k_local EXCEPT !.raised = "cancelled"] /\ c_pc' = "close"
       ELSE LET r == CP_iterate(k_local.cp, cam_frame, k_local.camera_points,
                                k_local.dwell_frames)
            IN  IF r.collected = None
                THEN k_local' = [k_local EXCEPT !.cp = r.cp] /\ c_pc' = "sample"
                ELSE /\ k_local' = [k_local EXCEPT
                                       !.cp = r.cp,
                                       !.camera_points = Append(@, r.collected),
                                       !.index = @ + 1]
                     /\ c_pc' = IF k_local.index = 4 THEN "close" ELSE "target"
    /\ UNCHANGED <<calRest, overlays, overlay_registry, disk, ui_pc, calibration,
                   homography, quad_filter, calibrating, calibration_abort,
                   camera_stream, cam_frame, n_calibrated>>

\* an exception other than CalibrationError raised while a point is collected
K_Fail ==
    /\ c_pc = "sample"
    /\ k_local' = [k_local EXCEPT !.raised = "error"]
    /\ c_pc' = "close"
    /\ UNCHANGED <<calRest, overlays, overlay_registry, disk, ui_pc, calibration,
                   homography, quad_filter, calibrating, calibration_abort,
                   camera_stream, cam_frame, n_calibrated>>

\* K_Close going on to build the profile whatever was raised
K_Close_onward ==
    /\ c_pc = "close"
    /\ CloseOverlays({k_local.overlay})
    /\ c_pc' = "profile"
    /\ UNCHANGED <<calRest, k_local, disk, ui_pc, calibration, homography, quad_filter,
                   calibrating, calibration_abort, camera_stream, cam_frame,
                   n_calibrated>>

\* run_calibration, line 567: the finally clause; an exception then leaves
\* run_calibration and reaches the finally clause of _calibrate
K_Close ==
    /\ c_pc = "close"
    /\ CloseOverlays({k_local.overlay})
    /\ c_pc' = IF k_local.raised = "none" THEN "profile" ELSE "finally"
    /\ UNCHANGED <<calRest, k_local, disk, ui_pc, calibration, homography, quad_filter,
                   calibrating, calibration_abort, camera_stream, cam_frame,
                   n_calibrated>>

InPx(p) == <<p[1] \div SubPx, p[2] \div SubPx>>

\* run_calibration, lines 569-616: config.calibration = profile
K_Profile ==
    /\ c_pc = "profile"
    /\ calibration' = MakeProfile([i \in 1..Len(k_local.camera_points) |->
                                      InPx(k_local.camera_points[i])])
    /\ c_pc' = "save"
    /\ UNCHANGED <<calRest, calVars, homography, quad_filter, calibrating,
                   calibration_abort, camera_stream, cam_frame, n_calibrated>>

\* run_calibration, line 617: save_config(config)
K_Save ==
    /\ c_pc = "save"
    /\ disk' = calibration
    /\ c_pc' = "reload"
    /\ UNCHANGED <<calRest, k_local, overlays, overlay_registry, ui_pc, calibration,
                   homography, quad_filter, calibrating, calibration_abort,
                   camera_stream, cam_frame, n_calibrated>>

\* _after_calibration, line 394: self.config = load_config()
K_Reload ==
    /\ c_pc = "reload"
    /\ calibration' = disk
    /\ c_pc' = "homography"
    /\ UNCHANGED <<calRest, calVars, homography, quad_filter, calibrating,
                   calibration_abort, camera_stream, cam_frame, n_calibrated>>

\* CalibrationOverlay._on_key_press: Escape on an open overlay
O_Cancel ==
    /\ \E id \in overlay_registry :
          /\ ~overlays[id].cancelled
          /\ overlays' = [overlays EXCEPT ![id].cancelled = TRUE]
    /\ UNCHANGED <<calRest, k_local, overlay_registry, disk, ui_pc, calibration,
                   homography, quad_filter, calibrating, calibration_abort,
                   camera_stream, cam_frame, c_pc, n_calibrated>>

\* shutdown, lines 125-126
S_Abort ==
    /\ ui_pc = "running"
    /\ calibration_abort' = TRUE
    /\ ui_pc' = "joining"
    /\ UNCHANGED <<calRest, k_local, overlays, overlay_registry, disk, calibration,
                   homography, quad_filter, calibrating, camera_stream, cam_frame,
                   c_pc, n_calibrated>>

\* shutdown, lines 127-136: the workers have ended or the joins have timed out;
\* the camera is stopped
S_Stop ==
    /\ ui_pc = "joining"
    /\ camera_stream' = None
    /\ ui_pc' = "closing"
    /\ UNCHANGED <<calRest, k_local, overlays, overlay_registry, disk, calibration,
                   homography, quad_filter, calibrating, calibration_abort, cam_frame,
                   c_pc, n_calibrated>>

\* shutdown, line 137: close_all_overlays (calibration.py:249-253)
S_CloseAll ==
    /\ ui_pc = "closing"
    /\ CloseOverlays(overlay_registry)
    /\ ui_pc' = "down"
    /\ UNCHANGED <<calRest, k_local, disk, calibration, homography, quad_filter,
                   calibrating, calibration_abort, camera_stream, cam_frame, c_pc,
                   n_calibrated>>

NextCalibration ==
    \/ K_Capture
    \/ K_Start
    \/ K_Begin
    \/ K_ClearAbort
    \/ K_Open
    \/ K_Target
    \/ K_Sample
    \/ K_Fail
    \/ K_Close
    \/ K_Profile
    \/ K_Save
    \/ K_Reload
    \/ C_Homography
    \/ C_Filters
    \/ C_Finally
    \/ O_Cancel
    \/ S_Abort
    \/ S_Stop
    \/ S_CloseAll

-----------------------------------------------------------------------------
(* The specifications *)

\* the application: the config on disk holds sensitivity 0.5 and hysteresis 0.25
\* and either no calibration or ProfileA; the smoother has the constructor's
\* defaults, reacquire_frames 1 and reacquire_radius 0.25
Init ==
    /\ ThrStart(2, 1)
    /\ FltStart(1, 2500)
    /\ TrkStart(3)
    /\ QuadStart(<<>>)
    /\ PtrStart
    /\ NumStart
    /\ \E cal \in {None, ProfileA}, started \in BOOLEAN :
          AppStart(cal, started) /\ CalStart(cal)

Next ==
    \/ Capture
    \/ Tick
    \/ T_Loop
    \/ T_Detect
    \/ T_Track
    \/ T_Click
    \/ RunCalibration
    \/ C_Collect
    \/ C_Homography
    \/ C_Filters
    \/ C_Finally

Spec == Init /\ [][Next]_vars

\* an AdaptiveThreshold exercised on its own
InitThreshold ==
    /\ \E s \in SensitivitySet, h \in HysteresisSet : ThrStart(s, h)
    /\ FltStart(1, 2500)
    /\ TrkStart(3)
    /\ QuadStart(<<>>)
    /\ PtrStart
    /\ NumStart
    /\ AppStart(None, FALSE)
    /\ CalStart(None)

SpecThreshold == InitThreshold /\ [][NextThreshold]_vars

\* a OneEuroFilter exercised on its own
InitFilter ==
    /\ ThrStart(2, 1)
    /\ \E n \in 0..MaxReacquire, r \in RadiusSet : FltStart(n, r)
    /\ TrkStart(3)
    /\ QuadStart(<<>>)
    /\ PtrStart
    /\ NumStart
    /\ AppStart(None, FALSE)
    /\ CalStart(None)

SpecFilter == InitFilter /\ [][NextFilter]_vars

\* a BlobTracker exercised on its own
InitTracker ==
    /\ ThrStart(2, 1)
    /\ FltStart(1, 2500)
    /\ \E n \in 1..MaxPersistence : TrkStart(n)
    /\ QuadStart(<<>>)
    /\ PtrStart
    /\ NumStart
    /\ AppStart(None, FALSE)
    /\ CalStart(None)

SpecTracker == InitTracker /\ [][NextTracker]_vars

\* a QuadFilter built from any four of the vertices, in any order, and queried
InitQuad ==
    /\ ThrStart(2, 1)
    /\ FltStart(1, 2500)
    /\ TrkStart(3)
    /\ \E a \in QuadPoints, b \in QuadPoints, c \in QuadPoints, d \in QuadPoints :
          QuadStart(<<a, b, c, d>>)
    /\ PtrStart
    /\ NumStart
    /\ AppStart(None, FALSE)
    /\ CalStart(None)

SpecQuad == InitQuad /\ [][NextQuad]_vars

\* the calibration worker, the camera worker, the overlay and shutdown
InitCalibration ==
    /\ ThrStart(2, 1)
    /\ FltStart(1, 2500)
    /\ TrkStart(3)
    /\ QuadStart(<<>>)
    /\ PtrStart
    /\ NumStart
    /\ \E cal \in {None, ProfileA, ProfilePartial} :
          AppStart(cal, TRUE) /\ CalStart(cal)

SpecCalibration == InitCalibration /\ [][NextCalibration]_vars

-----------------------------------------------------------------------------
(* _collect_point on its own: run_calibration called with a short dwell, the   *)
(* overlay open, the camera running and the pen moving about the first target. *)

MaxCollectFrames == 4

\* the pen on the target, 1 px, 4 px and 30 px to the right of it, too dim a
\* spot on the target, nothing in view, and the pen at two places 5.4 px apart
\* that lie 40.003 px and 40.03 px from the point half a pixel right of the
\* target
CollectFrames ==
    LET p == camera_quad(ProfileB)[1]
        pen(dx, dy, v) == << [center |-> <<p[1] + dx, p[2] + dy>>, area |-> 40,
                              intensity |-> v] >>
    IN  {<<>>, pen(0, 0, 80), pen(1, 0, 80), pen(4, 0, 80), pen(30, 0, 80),
         pen(0, 0, 2), pen(13, 38, 80), pen(18, 36, 80)}

\* CameraStream._loop (camera.py:128-140) publishing the next frame
L_Capture ==
    /\ camera_stream # None
    /\ (IF cam_frame = None THEN 0 ELSE cam_frame.seq) < MaxCollectFrames
    /\ \E f \in CollectFrames :
          cam_frame' = [blobs |-> f,
                        seq |-> 1 + (IF cam_frame = None THEN 0 ELSE cam_frame.seq)]
    /\ UNCHANGED <<calRest, calVars, calibration, homography, quad_filter, calibrating,
                   calibration_abort, camera_stream, c_pc, n_calibrated>>

NextCollect ==
    \/ L_Capture
    \/ K_Target
    \/ K_Sample
    \/ O_Cancel

\* run_calibration(dwell_frames = n) at the head of its loop over the targets
InitCollect ==
    /\ ThrStart(2, 1)
    /\ FltStart(1, 2500)
    /\ TrkStart(3)
    /\ QuadStart(<<>>)
    /\ PtrStart
    /\ NumStart
    /\ pointer_driver = PD_init
    /\ calibration = None
    /\ homography = None
    /\ quad_filter = None
    /\ calibrating = TRUE
    /\ calibration_abort = FALSE
    /\ pointer_resume_time = 0
    /\ telemetry = [pointer |-> None, blob_intensity |-> 0, click_active |-> FALSE]
    /\ camera_stream = <<0>>
    /\ cam_frame = None
    /\ t_pc = "loop"
    /\ t_local = NoLocals
    /\ c_pc = "target"
    /\ clock = 0
    /\ it = NoIteration
    /\ frame_log = <<>>
    /\ acted_on = {}
    /\ n_calibrated = 0
    /\ \E n \in 2..3 :
          k_local = [NoRun EXCEPT !.index = 1, !.overlay = 1, !.dwell_frames = n]
    /\ overlays = << [closed |-> FALSE, cancelled |-> FALSE] >>
    /\ overlay_registry = {1}
    /\ disk = None
    /\ ui_pc = "running"

SpecCollect == InitCollect /\ [][NextCollect]_vars

-----------------------------------------------------------------------------
(* PointerDriver on its own: move and reset_position called in any order.      *)

MaxMoves == 5

\* normalised targets that the 200 x 100 screen turns into the pixels (100,50),
\* (103,50), (103,54) and (110,50): 3, 4, exactly 5 and more than 5 px apart
PtrTargets == {<<5000, 5000>>, <<5150, 5000>>, <<5150, 5400>>, <<5500, 5000>>}

PtrCount(n, r, target) ==
    IF r.ev # <<>> THEN 0
    ELSE IF target # pointer_driver.last_target THEN n + 1
    ELSE n

\* PointerDriver.move called by the tracking loop (app.py:203)
PtrMove ==
    /\ pd_last.calls < MaxMoves
    /\ \E normalized \in PtrTargets :
          LET r == PD_move(pointer_driver, normalized, ProfileA)
              target == ScreenPixel(normalized, ProfileA)
          IN  /\ pointer_driver' = r.pd
              /\ pd_last' = [op |-> "move", calls |-> pd_last.calls + 1,
                             target |-> target, before |-> pointer_driver,
                             ev |-> r.ev,
                             sent |-> IF r.ev # <<>> THEN r.ev[1].at
                                      ELSE pd_last.sent,
                             skipped |-> PtrCount(pd_last.skipped, r, target),
                             fresh |-> PtrCount(pd_last.fresh, r, target),
                             skipped_was |-> pd_last.skipped,
                             fresh_was |-> pd_last.fresh]

\* PointerDriver.reset_position called by the tracking loop (app.py:214)
PtrReset ==
    /\ pd_last.op = "move"
    /\ pointer_driver' = PD_reset_position(pointer_driver)
    /\ pd_last' = [pd_last EXCEPT !.op = "reset", !.before = pointer_driver,
                                  !.ev = <<>>, !.fresh = 0]

NextPointer ==
    (PtrMove \/ PtrReset)
        /\ UNCHANGED <<thrVars, fltVars, trkVars, quadVars, calVars, numVars, calibration,
                       homography, quad_filter, calibrating, calibration_abort,
                       pointer_resume_time, telemetry, camera_stream, cam_frame,
                       t_pc, t_local, c_pc, clock, it, frame_log, acted_on,
                       n_calibrated>>

InitPointer ==
    /\ ThrStart(2, 1)
    /\ FltStart(1, 2500)
    /\ TrkStart(3)
    /\ QuadStart(<<>>)
    /\ PtrStart
    /\ NumStart
    /\ AppStart(ProfileA, FALSE)
    /\ CalStart(ProfileA)

SpecPointer == InitPointer /\ [][NextPointer]_vars

-----------------------------------------------------------------------------
(* PointerDriver called as the tracking loop calls it (app.py:203, 216-219),   *)
(* with a backend that can fail and the time going by.  An exception that      *)
(* leaves PointerDriver ends the tracking thread: _tracking_loop has no        *)
(* handler (app.py:139-254).                                                   *)

MaxSinkTicks == 4
SinkStepMs == 60

SinkTargets == {<<5000, 5000>>, <<5500, 5000>>}

\* button is the state of the mouse button as the delivered events leave it,
\* down_at the time of the press that put it down; due says that the call came
\* with the button held by the caller for click_hold_ms or longer
SinkStart ==
    pd_last = [op |-> "init", ticks |-> 0, ev |-> <<>>, raised |-> FALSE,
               button |-> "up", down_at |-> 0, due |-> FALSE, fail |-> "none",
               backend_was |-> "platform"]

SinkNow == pd_last.ticks * SinkStepMs

SinkAlive == ~pd_last.raised

SinkButton(ev) ==
    IF ev = <<>> THEN pd_last.button
    ELSE IF ev[1].op = "press" THEN "down"
    ELSE IF ev[1].op = "release" THEN "up"
    ELSE pd_last.button

SinkTick ==
    /\ pd_last.ticks < MaxSinkTicks
    /\ pd_last' = [pd_last EXCEPT !.ticks = @ + 1]
    /\ UNCHANGED pointer_driver

SinkMove ==
    /\ SinkAlive
    /\ \E normalized \in SinkTargets, fail \in Failures :
          LET r == PD_move_or_raise(pointer_driver, normalized, ProfileA, fail)
          IN  /\ pointer_driver' = r.pd
              /\ pd_last' = [pd_last EXCEPT !.op = "move", !.ev = r.ev,
                                            !.raised = r.raised, !.due = FALSE,
                                            !.fail = fail,
                                            !.backend_was = pointer_driver.backend]

SinkClick ==
    /\ SinkAlive
    /\ \E pressed \in BOOLEAN, fail \in Failures :
          LET r == PD_update_click_or_raise(pointer_driver, pressed, SinkNow, fail)
          IN  /\ pointer_driver' = r.pd
              /\ pd_last' = [pd_last EXCEPT
                                !.op = "click", !.ev = r.ev, !.raised = r.raised,
                                !.button = SinkButton(r.ev),
                                !.down_at = IF SinkButton(r.ev) = "down"
                                                 /\ pd_last.button = "up"
                                            THEN SinkNow ELSE @,
                                !.due = /\ pressed
                                        /\ pd_last.button = "down"
                                        /\ SinkNow - pd_last.down_at >= click_hold_ms,
                                !.fail = fail,
                                !.backend_was = pointer_driver.backend]

NextSink ==
    (SinkTick \/ SinkMove \/ SinkClick)
        /\ UNCHANGED <<thrVars, fltVars, trkVars, quadVars, calVars, numVars, calibration,
                       homography, quad_filter, calibrating, calibration_abort,
                       pointer_resume_time, telemetry, camera_stream, cam_frame,
                       t_pc, t_local, c_pc, clock, it, frame_log, acted_on,
                       n_calibrated>>

InitSink ==
    /\ ThrStart(2, 1)
    /\ FltStart(1, 2500)
    /\ TrkStart(3)
    /\ QuadStart(<<>>)
    /\ SinkStart
    /\ NumStart
    /\ AppStart(ProfileA, FALSE)
    /\ CalStart(ProfileA)

SpecSink == InitSink /\ [][NextSink]_vars

-----------------------------------------------------------------------------
(* The tracking loop with a camera that is switched while it runs: the UI      *)
(* thread calls select_camera, which may fail to open the device.              *)

\* RefurboardApp.select_camera (app.py:304-309) with _start_camera (99-115):
\* the configuration is saved, a new stream is started, the old one is stopped
\* and the new one, or None when it did not start, takes its place
SelectCamera ==
    /\ ui_pc = "running"
    /\ disk' = calibration
    /\ \E started \in BOOLEAN :
          camera_stream' = IF started THEN <<0>> ELSE None
    /\ cam_frame' = None
    /\ UNCHANGED <<thrVars, fltVars, trkVars, quadVars, ptrVars, numVars, k_local, overlays,
                   overlay_registry, ui_pc, pointer_driver, calibration, homography,
                   quad_filter, calibrating, calibration_abort, pointer_resume_time,
                   telemetry, t_pc, t_local, c_pc, clock, it, frame_log, acted_on,
                   n_calibrated>>

NextCamera ==
    \/ Capture
    \/ Tick
    \/ T_Loop
    \/ T_Detect
    \/ T_Track
    \/ T_Click
    \/ SelectCamera

InitCamera ==
    /\ ThrStart(2, 1)
    /\ FltStart(1, 2500)
    /\ TrkStart(3)
    /\ QuadStart(<<>>)
    /\ PtrStart
    /\ NumStart
    /\ \E started \in BOOLEAN : AppStart(ProfileA, started)
    /\ CalStart(ProfileA)

SpecCamera == InitCamera /\ [][NextCamera]_vars

-----------------------------------------------------------------------------
(* shutdown (app.py:124-137) called while the tracking worker and a            *)
(* calibration worker run and no marker is ever shown to the camera.           *)

\* the camera worker with nothing in view
K_CaptureBlank ==
    /\ camera_stream # None
    /\ (IF cam_frame = None THEN 0 ELSE cam_frame.seq) < MaxCalFrames
    /\ cam_frame' = [blobs |-> <<>>,
                     seq |-> 1 + (IF cam_frame = None THEN 0 ELSE cam_frame.seq)]
    /\ UNCHANGED <<calRest, calVars, calibration, homography, quad_filter, calibrating,
                   calibration_abort, camera_stream, c_pc, n_calibrated>>

\* the steps of the tracking thread
TrackingStep == T_Loop \/ T_Detect \/ T_Track \/ T_Click

\* the steps of the calibration thread once it has been started
CalibrationStep ==
    K_Begin \/ K_ClearAbort \/ K_Open \/ K_Target \/ K_Sample \/ K_Close \/ C_Finally

\* the steps of shutdown after its first two lines
ShutdownStep == S_Stop \/ S_CloseAll

NextShutdown ==
    \/ K_CaptureBlank
    \/ K_Start
    \/ TrackingStep
    \/ CalibrationStep
    \/ O_Cancel
    \/ S_Abort
    \/ ShutdownStep

InitShutdown ==
    /\ ThrStart(2, 1)
    /\ FltStart(1, 2500)
    /\ TrkStart(3)
    /\ QuadStart(<<>>)
    /\ PtrStart
    /\ NumStart
    /\ \E cal \in {None, ProfileA} : AppStart(cal, TRUE) /\ CalStart(cal)

SpecShutdown == InitShutdown /\ [][NextShutdown]_vars

\* every thread that can take a step takes one in the end; the user need not
\* press Escape and shutdown need not be called
SpecShutdownLive ==
    SpecShutdown /\ WF_vars(TrackingStep) /\ WF_vars(CalibrationStep)
        /\ WF_vars(ShutdownStep)

\* the tracking loop with the pen in view, cameras selected and shutdown called
\* at any moment
NextRelease == NextCamera \/ S_Abort \/ ShutdownStep

SpecRelease == InitCamera /\ [][NextRelease]_vars

\* the tracking thread and the thread in shutdown keep running: the tracking
\* thread wakes up at the head of its loop and, an iteration begun, comes to its
\* end (T_Detect, T_Track and T_Click are enabled wherever the thread stands
\* before them, so this is their weak fairness); the user need not select a
\* camera again and no further frame need arrive
SpecReleaseLive ==
    SpecRelease /\ WF_vars(T_Loop) /\ []<>(t_pc \in {"loop", "done"})
        /\ WF_vars(ShutdownStep)

-----------------------------------------------------------------------------
(* A Smoother on its own: built with one of the factors, with reacquisition    *)
(* disabled or asking for two stable frames, then updated and reset in any     *)
(* order.                                                                      *)

InitSmoother ==
    /\ ThrStart(2, 1)
    /\ FltStart(1, 2500)
    /\ TrkStart(3)
    /\ QuadStart(<<>>)
    /\ PtrStart
    /\ \E factor \in SmFactors, reacquire_frames \in {0, 2} :
           SmStart(factor, reacquire_frames)
    /\ FitStartDefault
    /\ ConfStart(None)
    /\ OvlStart
    /\ ClkStart
    /\ SesStart
    /\ AppStart(ProfileA, FALSE)
    /\ CalStart(ProfileA)

SpecSmoother == InitSmoother /\ [][NextSmoother]_vars

-----------------------------------------------------------------------------
(* The fit on its own: four camera points in target order, no three of them    *)
(* on a line, and the screen points of the four targets.                       *)

InitFit ==
    /\ ThrStart(2, 1)
    /\ FltStart(1, 2500)
    /\ TrkStart(3)
    /\ QuadStart(<<>>)
    /\ PtrStart
    /\ SmStart(<<1, 4>>, 0)
    /\ \E source \in [1..4 -> CamPoints], frame \in FrameSizes :
           NoThreeCollinear(source) /\ FitStart(source, ScreenPoints, frame)
    /\ ConfStart(None)
    /\ OvlStart
    /\ ClkStart
    /\ SesStart
    /\ AppStart(ProfileA, FALSE)
    /\ CalStart(ProfileA)

SpecFit == InitFit /\ [][NextFit]_vars

-----------------------------------------------------------------------------
(* The configuration file on its own: no file at first, then loads, edits,     *)
(* saves and removals in any order.                                            *)

InitConfig ==
    /\ ThrStart(2, 1)
    /\ FltStart(1, 2500)
    /\ TrkStart(3)
    /\ QuadStart(<<>>)
    /\ PtrStart
    /\ SmStart(<<1, 4>>, 0)
    /\ FitStartDefault
    /\ ConfStart(None)
    /\ OvlStart
    /\ ClkStart
    /\ SesStart
    /\ AppStart(ProfileA, FALSE)
    /\ CalStart(ProfileA)

SpecConfig == InitConfig /\ [][NextConfig]_vars

-----------------------------------------------------------------------------
(* One overlay on its own: its process, the listener and the callers of        *)
(* set_target, poll_cancelled and close in any order.                          *)

InitOverlay ==
    /\ ThrStart(2, 1)
    /\ FltStart(1, 2500)
    /\ TrkStart(3)
    /\ QuadStart(<<>>)
    /\ PtrStart
    /\ NumStart
    /\ AppStart(ProfileA, FALSE)
    /\ CalStart(ProfileA)

SpecOverlay == InitOverlay /\ [][NextOverlay]_vars

\* update_click called by the two workers, one statement at a time
SpecClick == InitOverlay /\ [][NextClick]_vars

\* calls of run_calibration and the workers they start
SpecSession == InitOverlay /\ [][NextSession]_vars

\* the tracking thread, asleep at the head of its loop (app.py:145, 149 and
\* 254), wakes up again
SpecCameraLive == SpecCamera /\ WF_vars(T_Loop)


-----------------------------------------------------------------------------
(* Claims about AdaptiveThreshold *)

\* baseline * (1 + sensitivity) and its (1 - hysteresis) fraction, as the
\* specification writes them, compared with a signal by cross-multiplication
C1_AtLeastHigh(signal, b, sens) == signal * Pow50(b.k) * 4 >= b.num * (4 + sens)
C1_AtLeastLow(signal, b, sens, hyst) ==
    signal * Pow50(b.k) * 4 * 4 >= b.num * (4 + sens) * (4 - hyst)

\* C1: evaluate returns active exactly when signal >= low if it was active before
\* the call, and exactly when signal >= high if it was inactive, with high and low
\* taken from the baseline that has already absorbed the signal.
C1_TransitionRule ==
    thr_last.op = "evaluate" =>
        click_threshold.state =
            IF thr_last.before.state
            THEN C1_AtLeastLow(thr_last.signal, click_threshold.baseline,
                               click_threshold.sensitivity, click_threshold.hysteresis)
            ELSE C1_AtLeastHigh(thr_last.signal, click_threshold.baseline,
                                click_threshold.sensitivity)

\* an evaluate that kept the threshold active inside the band: the signal is
\* below high and at least low
C1_Witness ==
    /\ thr_last.op = "evaluate"
    /\ thr_last.before.state
    /\ click_threshold.state
    /\ ~C1_AtLeastHigh(thr_last.signal, click_threshold.baseline, click_threshold.sensitivity)

-----------------------------------------------------------------------------
(* Claims about OneEuroFilter *)

\* the last call was an update made while the filter had no trusted position
C5_Acquiring == flt_last.op = "update" /\ flt_last.before.x = None

\* C5: with reacquire_frames = N >= 2 and no trusted position, update returns a
\* value exactly on the N-th sample in a row (the one that started the candidate
\* included) that lay within reacquire_radius of the running candidate, and
\* returns no value on every earlier one.
C5_ReacquireAfterN ==
    (C5_Acquiring /\ smoother.reacquire_frames >= 2) =>
        /\ flt_streak <= smoother.reacquire_frames
        /\ (flt_last.out # None) <=> (flt_streak = smoother.reacquire_frames)

\* a value returned on the third stable sample of a filter built with N = 3
C5_Witness ==
    /\ C5_Acquiring /\ smoother.reacquire_frames = 3
    /\ flt_last.out # None /\ flt_streak = 3
    /\ flt_last.before.candidate_frames = 2

\* C6 as claimed: with reacquire_frames = 1 the first update after construction
\* or reset returns a value.
C6_ImmediateWithOne ==
    (flt_last.op = "update" /\ flt_last.first /\ smoother.reacquire_frames = 1) =>
        flt_last.out # None

-----------------------------------------------------------------------------
(* The tracking loop and the click threshold *)

\* C3 as stated: whenever an iteration in which the smoother returned a value
\* hands a click state to the pointer driver, the click threshold was evaluated
\* on the selected blob's intensity and the state handed over is its result.
C3_ClickFromThreshold ==
    (it.done /\ it.kind = "value" /\ ~it.blocked)
        => /\ thr_last.op = "evaluate"
           /\ thr_last.signal = it.best.intensity
           /\ it.pressed = click_threshold.state

HasEvent(ev, op) == \E i \in 1..Len(ev) : ev[i].op = op

-----------------------------------------------------------------------------
(* Single-frame detections *)

\* C7 as stated: no frame that holds a blob and lies between two frames without
\* any qualifying blob has an iteration that moved the pointer or pressed.
C7_SingleFrameBlobIgnored ==
    \A s \in acted_on :
        ~(/\ 1 < s
          /\ s < Len(frame_log)
          /\ frame_log[s - 1]
          /\ frame_log[s + 1])

-----------------------------------------------------------------------------
(* Loss of the pen *)

C8_Cleared(f) ==
    /\ f.x = None
    /\ f.dx = None
    /\ f.last_time = None
    /\ f.candidate = None
    /\ f.candidate_frames = 0

\* C8: after an iteration whose frame yields no qualifying blob the smoother
\* holds no position, velocity, timestamp, candidate or candidate count, and the
\* next sample it is given starts a new acquisition: it becomes the candidate,
\* with a count of one, and nothing is returned for it.
C8_ResetOnNoBlobs ==
    /\ it.kind = "no_blobs" => C8_Cleared(smoother)
    /\ (it.prev = "no_blobs" /\ it.kind \in {"value", "reacquiring"})
          => /\ C8_Cleared(flt_last.before)
             /\ flt_last.first
             /\ it.kind = "reacquiring"
             /\ smoother.candidate = it.sample
             /\ smoother.candidate_frames = 1

\* a no-blob iteration has cleared a smoother that held a trusted position
C8_Witness ==
    /\ it.kind = "no_blobs"
    /\ flt_last.op = "reset"
    /\ flt_last.before.x # None
    /\ C8_Cleared(smoother)

\* C9 as stated: the first move() after the pen was lost moves the pointer,
\* whatever the target before the loss.
C9_FirstMoveUnconditional ==
    (it.move_called /\ it.after_loss) => HasEvent(it.ev, "move")

\* C9, amended: a no-blob iteration resets the driver's deadzone skip count and
\* keeps its last target; the first move() after the loss moves the pointer
\* exactly when there was no target yet or the new target is more than
\* min_move_px away from the target before the loss.
C9_TargetKeptAcrossLoss ==
    /\ it.kind = "no_blobs"
          => /\ pointer_driver.last_target = it.target0
             /\ pointer_driver.deadzone_skips = 0
    /\ (it.move_called /\ it.after_loss)
          => (HasEvent(it.ev, "move")
                <=> \/ it.target0 = None
                    \/ Dist2(it.target, it.target0) > min_move_px * min_move_px)

\* the pen came back close to where it was lost and the move was suppressed
C9_Witness ==
    /\ it.move_called
    /\ it.after_loss
    /\ it.target0 # None
    /\ it.target # it.target0
    /\ ~HasEvent(it.ev, "move")

-----------------------------------------------------------------------------
(* Selection of the pen *)

\* C10 as stated: the selected blob has the highest weighted score of the
\* qualifying blobs.
C10_HighestScoreSelected ==
    it.best # None
        => \A i \in 1..Len(it.qualifying) : Score(it.qualifying[i]) <= Score(it.best)

\* C10, amended: the selected blob is the first, in the detector's ranking, of
\* the qualifying blobs with the highest intensity, and it is the blob whose
\* projection the smoother is given.
C10_BrightestSelected ==
    it.best # None
        => /\ \E i \in 1..Len(it.qualifying) :
                 /\ it.best = it.qualifying[i]
                 /\ \A j \in 1..Len(it.qualifying) :
                       \/ it.qualifying[j].intensity < it.best.intensity
                       \/ it.qualifying[j].intensity = it.best.intensity /\ j >= i
           /\ it.kind \in {"value", "reacquiring"}
                 => flt_last.op = "update" /\ flt_last.value = it.sample

\* the brightest blob was selected although another one ranks higher
C10_Witness ==
    /\ it.best # None
    /\ it.sample # None
    /\ Len(it.qualifying) >= 2
    /\ Score(it.qualifying[1]) > Score(it.best)

-----------------------------------------------------------------------------
(* Calibration and pointer output *)

\* the events the tracking loop sends to the backend in the step taken
Sent ==
    IF t_pc = "track" /\ t_pc' = "click" THEN it'.ev
    ELSE IF t_pc = "click" /\ t_pc' = "loop"
         THEN SubSeq(it'.ev, Len(it.ev) + 1, Len(it'.ev))
         ELSE <<>>

\* C11 as stated: no move and no press reaches the backend while a calibration
\* is in progress or during the cooldown after it.
C11_NoOutputWhileBlocked ==
    [][(\E i \in 1..Len(Sent) : Sent[i].op \in {"move", "press"}) => ~Blocked]_vars

-----------------------------------------------------------------------------
(* BlobTracker *)

\* C12, first half: a blob in the confirmed output ends a run of detections, one
\* in each of the latest persistence_frames frames at least, each closer than the
\* association radius to the one before.
C12_NeverEarly ==
    trk_last.op = "update" =>
        \A i \in 1..Len(trk_last.frame) :
            (\E k \in 1..Len(trk_last.out) : trk_last.out[k] = trk_last.frame[i])
                => trk_last.chain[i] >= blob_tracker.persistence_frames

\* C12, second half: a light source seen in each of the latest persistence_frames
\* frames at least, moving less than the association radius from frame to frame,
\* is in the confirmed output.
C12_ConfirmedInTime ==
    trk_last.op = "update" =>
        \A src \in Sources :
            trk_last.age[src] >= blob_tracker.persistence_frames
                => Shows(trk_last.out, src)

\* C12 as stated: both halves, for every sequence of frames.
C12_PersistenceRule == C12_NeverEarly /\ C12_ConfirmedInTime

-----------------------------------------------------------------------------
(* QuadFilter *)

\* C13, first half: the filter contains each of the four points it was built from.
C13_VerticesContained ==
    quad_obj # None =>
        \A i \in 1..Len(quad_pts) : QF_contains(quad_obj, quad_pts[i])

\* C13, second half: filter_blobs returns the blobs whose centres satisfy
\* contains, each once and in the order given.
C13_FilterExact ==
    quad_last.op = "filter_blobs" =>
        \E keep \in SUBSET (1..Len(quad_last.arg)) :
            /\ \A i \in 1..Len(quad_last.arg) :
                   i \in keep <=> QF_contains(quad_obj, quad_last.arg[i].center)
            /\ Len(quad_last.out) = Cardinality(keep)
            /\ \A k \in 1..Len(quad_last.out) :
                   \E i \in keep :
                       /\ Cardinality({j \in keep : j <= i}) = k
                       /\ quad_last.out[k] = quad_last.arg[i]

\* C13 as stated: both halves, for every choice of four points.
C13_QuadFilter == C13_VerticesContained /\ C13_FilterExact

-----------------------------------------------------------------------------
(* The calibration run *)

\* C14, first half: the profile the application holds is absent or has exactly
\* the four points top_left, top_right, bottom_right, bottom_left in that order.
C14_ProfileComplete ==
    calibration = None
    \/ /\ Len(calibration.points) = 4
       /\ \A i \in 1..4 : calibration.points[i].name = TARGET_ORDER[i].name

\* C14, second half: the profile changes only in the last steps of a run that
\* collected all four targets and raised nothing.
C14_ReplacedAtEnd ==
    calibration' # calibration =>
        /\ c_pc \in {"profile", "reload"}
        /\ Len(k_local.camera_points) = 4
        /\ k_local.raised = "none"

\* C14 as stated: both halves.
C14_ProfileWholeOrAbsent == [](C14_ProfileComplete) /\ [][C14_ReplacedAtEnd]_vars

\* C14 amended: the profile is absent, or complete, or the one load_config read
\* from a config file that still holds it; and the second half as stated.
C14_ProfileWholeOrLoaded ==
    [](C14_ProfileComplete \/ calibration = disk) /\ [][C14_ReplacedAtEnd]_vars

\* a run has replaced the incomplete profile loaded at start by the four points
\* it collected
C14_Witness ==
    /\ c_pc = "idle"
    /\ k_local.before.calibration = ProfilePartial
    /\ calibration = ProfileB

\* C15: after a run was cancelled, by the abort flag or on the overlay, with 0 to
\* 3 points collected, the profile, the homography, the quad filter and the
\* config file are those the run started with, and the worker goes on to its
\* finally clause.
C15_CancelChangesNothing ==
    (k_local.raised = "cancelled" /\ c_pc \in {"close", "finally", "idle"}) =>
        /\ Len(k_local.camera_points) <= 3
        /\ calibration = k_local.before.calibration
        /\ homography = k_local.before.homography
        /\ quad_filter = k_local.before.quad_filter
        /\ disk = k_local.before.disk

\* a run cancelled on the overlay after three points has ended
C15_Witness ==
    /\ c_pc = "idle"
    /\ k_local.raised = "cancelled"
    /\ Len(k_local.camera_points) = 3
    /\ ~calibration_abort
    /\ ui_pc = "running"
    /\ calibration = ProfileA

\* C16: outside lines 515-567 of run_calibration every overlay created so far
\* is closed and the registry is empty.
C16_OverlayClosedOnExit ==
    c_pc \in {"idle", "begin", "clear", "open", "profile", "save", "reload",
              "homography", "filters", "finally"} =>
        /\ overlay_registry = {}
        /\ \A i \in 1..Len(overlays) : overlays[i].closed

\* run_calibration has been left by an exception raised while the third point
\* was collected
C16_Witness ==
    /\ c_pc = "finally"
    /\ k_local.raised = "error"
    /\ Len(k_local.camera_points) = 2
    /\ Len(overlays) = 1
    /\ ui_pc = "running"


\* C17, first half: with the abort flag set during a run that has collected
\* fewer than four points, the next pass of the sampling loop ends the run as
\* cancelled.
C17_ObservedAtOnce ==
    (/\ calibration_abort /\ calibrating /\ Len(k_local.camera_points) < 4
     /\ c_pc = "sample" /\ c_pc' # "sample")
        => k_local'.raised \in {"cancelled", "error"}

\* C17, second half: during such a run the abort flag is cleared only after the
\* run has ended by an exception.
C17_NeverLost ==
    (/\ calibration_abort /\ calibrating /\ Len(k_local.camera_points) < 4
     /\ ~calibration_abort')
        => k_local.raised # "none"

\* C17 as stated: both halves, under every interleaving of shutdown and the
\* calibration worker.
C17_AbortObserved == [][C17_ObservedAtOnce /\ C17_NeverLost]_vars

-----------------------------------------------------------------------------
(* The tracking loop during a recalibration *)

\* C18 as stated: in every iteration of the tracking loop the quad filter, the
\* homography and the profile it reads belong to one calibration.
C18_NoTornRead ==
    [][(t_pc = "track" /\ t_pc' = "click" /\ t_local.blobs # <<>>) =>
           /\ homography = rebuild_homography(calibration)
           /\ it.quad_read = <<rebuild_filters(calibration)>>]_vars
\* the best remaining blob of the frame read, in 1/64 px; <<>> when none remains
C19_Best ==
    LET bright(b) == b.intensity >= cal_min_intensity
        apart(b) == ~too_close(b.center, k_local.camera_points)
        blobs == SelectSeq(SelectSeq(find_blobs(cam_frame.blobs), bright), apart)
    IN  IF blobs = <<>> THEN <<>> ELSE InSubPx(blobs[1].center)

\* C19, first part: a point is accepted only when dwell_frames camera frames
\* in a row were counted
C19_AcceptedAfterDwell ==
    (c_pc \in {"target", "close"} /\ k_local.index > 1 /\ k_local.raised = "none")
        => Cardinality(k_local.cp.frames) >= k_local.dwell_frames

\* C19, second part: a blob further than the settle radius from the reference
\* restarts the count at 1 with that blob as the reference
C19_JumpRestarts ==
    (/\ c_pc = "sample" /\ k_local' # k_local /\ k_local'.raised = "none"
     /\ cam_frame # None /\ C19_Best # <<>> /\ k_local.cp.last_hit # None
     /\ Dist2(C19_Best, k_local.cp.last_hit)
            > settle_radius * settle_radius * SubPx * SubPx)
        => k_local'.cp.dwell = 1 /\ k_local'.cp.last_hit = C19_Best

\* C19, third part: a frame with no qualifying blob resets the count to 0
C19_NoBlobResets ==
    (/\ c_pc = "sample" /\ k_local' # k_local /\ k_local'.raised = "none"
     /\ cam_frame # None /\ C19_Best = <<>>)
        => k_local'.cp.dwell = 0

\* C19 as stated: a calibration point is accepted only after the best remaining
\* blob stayed within the settle radius of the running reference point for
\* dwell_frames consecutive camera frames; a jump beyond the radius restarts
\* the count at 1 with the new blob as reference, and a frame with no
\* qualifying blob resets the count to 0.
C19_DwellRule ==
    /\ []C19_AcceptedAfterDwell
    /\ [][C19_JumpRestarts /\ C19_NoBlobResets]_vars

\* the request just made came after the first move and lay within min_move_px
\* of the last target
C20_Near ==
    /\ pd_last.op = "move"
    /\ pd_last.before.last_target # None
    /\ Dist2(pd_last.target, pd_last.before.last_target) <= min_move_px * min_move_px

\* a request after the first move is suppressed exactly when it lies within
\* min_move_px of the last target and is not forced; it is forced when its
\* delta is not zero and n, the number of requests with a non-zero delta
\* suppressed before it, is 1
C20_Rule(n) ==
    (pd_last.op = "move" /\ pd_last.before.last_target # None) =>
        LET forced == pd_last.target # pd_last.before.last_target /\ n >= 1
        IN  (pd_last.ev = <<>>) <=> (C20_Near /\ ~forced)

\* the stored last target is the target of the last move sent to the backend
C20_LastTarget == pointer_driver.last_target = pd_last.sent

C21_ReleasedWhenDue ==
    (pd_last.op = "click" /\ pd_last.due) =>
        (pd_last.button = "up" /\ pd_last.ev # <<>> /\ pd_last.ev[1].op = "release")

\* C22 as stated: a backend failure in move, press or release is caught in
\* PointerDriver, the backend is replaced by the generic one and the operation
\* retried on it; no failure reaches the tracking loop, and click_active
\* agrees with the events delivered.
C22_FailureContained ==
    /\ ~pd_last.raised
    /\ (pd_last.fail # "none" /\ (pd_last.ev # <<>> \/ pd_last.raised)) =>
           (pointer_driver.backend = "pynput" /\ pd_last.ev # <<>>)
    /\ pointer_driver.click_active <=> pd_last.button = "down"

\* C23, first part: while there is no camera stream the tracking worker detects
\* nothing and sends no pointer event
C23_IdleWithoutCamera ==
    [][camera_stream = None =>
           (~(t_pc = "detect" /\ t_pc' # "detect") /\ Sent = <<>>)]_vars

\* the same of an iteration that starts without a camera stream
C23_NoIterationStarts ==
    [][(camera_stream = None /\ t_pc = "loop") =>
           (t_pc' = "loop" /\ pointer_driver' = pointer_driver)]_vars

\* C23, second part: once a stream is open again and has published a frame,
\* the worker at the head of its loop takes up a frame unless the camera is
\* switched again first
C23_Resumes ==
    (t_pc = "loop" /\ camera_stream # None /\ cam_frame # None)
        ~> (t_pc = "detect" \/ camera_stream = None \/ cam_frame = None)

\* C23 as stated: while no camera stream is available the tracking worker keeps
\* running, performs no detection and emits no pointer event; after a later
\* select_camera call succeeds it resumes processing frames without a restart.
C23_CameraUnavailable == C23_IdleWithoutCamera /\ C23_Resumes

\* latest_frame returns at once: the loop head is never blocked
C24_NeverWaits == t_pc = "loop" => ENABLED T_Loop

\* what latest_frame hands to the tracking loop: a frame only when one has been
\* published, then the one published last, never one older than the frame of
\* the call before
C24_Latest ==
    (t_pc = "loop" /\ t_pc' = "detect") =>
        /\ cam_frame # None
        /\ t_local'.seq = Len(frame_log)
        /\ t_local'.frame = cam_frame.blobs
        /\ t_local'.seq >= it.seq

\* C24: latest_frame never waits; it returns none until a first frame has been
\* published and afterwards the frame published last; one frame is buffered at
\* most, and no call returns a frame older than one returned before.
C24_LatestFrame == []C24_NeverWaits /\ [][C24_Latest]_vars

\* a frame was returned after several had been published, the earlier ones
\* dropped or read before
C24_Witness ==
    /\ t_pc = "detect"
    /\ t_local.seq = Len(frame_log)
    /\ Len(frame_log) >= 2
    /\ it.prev = "none"

\* C25 as stated: after shutdown is called the tracking worker and an active
\* calibration worker both end in time, with no marker ever shown and wherever
\* the calibration worker is when shutdown is called.
C25_WorkersTerminate == (ui_pc # "running") ~> (t_pc = "done" /\ c_pc = "idle")

\* the tracking worker alone
C25_TrackingEnds == (ui_pc # "running") ~> (t_pc = "done")

\* C26.  den * (out - exact) on the scale S, for a result out and the exact
\* number num / den when num is taken on the scale S as well
C26_Off(out, num, den, S) == Abs(den * F32_at(out, S) - num)

\* the difference off, a multiple of 1 / (den * 2^S), is at most 1 / 2^bits
C26_Close(off, den, S, bits) ==
    off * Pow2(IF S < bits THEN bits - S ELSE 0)
        <= den * Pow2(IF S > bits THEN S - bits ELSE 0)

\* den * (out - sample) for the first sample, in tenths, on the scale of out
C26_FirstOff(i) == C26_Off(ema.out[i], ema.value[i] * Pow2(ema.out[i][2]), 10, ema.out[i][2])

C26_Scale(i) == F32_max(ema.out[i][2], ema.before[i][2])

\* the numbers on the scale S are split at K = 2^(S - 20), so that no product
\* leaves the 32-bit range
C26_Unit(S) == Pow2(IF S > 20 THEN S - 20 ELSE 0)

\* den * |out - ((1 - factor) * previous + factor * sample)| on the scale S, with
\* den = 10 * d for the factor n / d; a difference above den * K is given as
\* den * K
C26_BlendOff(i) ==
    LET f   == ema.sm.factor
        S   == C26_Scale(i)
        K   == C26_Unit(S)
        den == 10 * f[2]
        c   == 10 * (f[2] - f[1])
        o   == F32_at(ema.out[i], S)
        p   == F32_at(ema.before[i], S)
        H   == den * (o \div K) - c * (p \div K) - f[1] * ema.value[i] * (Pow2(S) \div K)
        L   == den * (o % K) - c * (p % K)
    IN  IF Abs(H) > 2 * den THEN den * K ELSE Abs(K * H + L)

\* the call was a first update of a smoother without reacquisition
C26_First == ema.op = "update" /\ ema.sm.reacquire_frames = 0 /\ ema.before = None

\* the call was a later update of a smoother without reacquisition
C26_Later == ema.op = "update" /\ ema.sm.reacquire_frames = 0 /\ ema.before # None

\* C26 as stated: without reacquisition and without max_step, update returns
\* the first sample after construction or reset unchanged, and every later
\* call returns (1 - factor) * previous_output + factor * sample on each axis.
C26_ExactBlend ==
    /\ C26_First => \A i \in 1..2 : C26_FirstOff(i) = 0
    /\ C26_Later => \A i \in 1..2 : C26_BlendOff(i) = 0

\* C26 amended: without reacquisition and without max_step, update returns the
\* first sample after construction or reset rounded to float32, within 1/2^24
\* of it, and every later call returns the blend evaluated in float32, within
\* 1/2^21 of (1 - factor) * previous_output + factor * sample on each axis
\* (coordinates in [0, 1], factor in [0, 1]).
C26_Float32Blend ==
    /\ C26_First => /\ ema.out = ema.sm.value
                    /\ \A i \in 1..2 : C26_Close(C26_FirstOff(i), 10, ema.out[i][2], 24)
    /\ C26_Later => /\ ema.out = ema.sm.value
                    /\ \A i \in 1..2 :
                          C26_Close(C26_BlendOff(i), 10 * ema.sm.factor[2],
                                    C26_Scale(i), 21)

\* a second blend in a row whose result is not the exact blend
C26_Witness ==
    /\ C26_Later
    /\ ema.blends >= 2
    /\ C26_BlendOff(1) # 0

\* the reprojected camera point i is the screen point i: the division by the
\* third coordinate is defined and gives the screen point on both axes
C27_Reproduced(i) ==
    /\ fit.projected[i][3] # 0
    /\ fit.projected[i][1] = fit.dest[i][1] * fit.projected[i][3]
    /\ fit.projected[i][2] = fit.dest[i][2] * fit.projected[i][3]

\* C27 as stated: for any four pairs with no three camera points on a line,
\* each camera point reprojected through the fitted homography is its screen
\* point, so that the stored reprojection error is 0 up to rounding.
C27_Reprojects == fit.homography # None => \A i \in 1..4 : C27_Reproduced(i)

\* the same for the fits whose elimination does not meet a zero pivot
C27_ReprojectsSolved ==
    (fit.homography # None /\ fit.homography # Unsolved) =>
        \A i \in 1..4 : C27_Reproduced(i)

\* C28.  The contours of the frame that lie inside the calibrated quad
C28_InQuad(frame) ==
    IF frame # <<>> /\ quad_filter # None THEN QF_filter_blobs(quad_filter, frame)
    ELSE frame

C28_Centers(blobs) == {blobs[i].center : i \in 1..Len(blobs)}

\* the detection step of an iteration that runs after a calibration has been
\* completed and its filters rebuilt
C28_DetectsAfterCalibration ==
    t_pc = "detect" /\ t_pc' = "track" /\ calibration = ProfileB /\ c_pc = "idle"

\* the blobs accepted are those within the learned bounds of the profile
C28_ByLearned ==
    LET within(b) == LearnedAccepts(calibration, b)
    IN  C28_DetectsAfterCalibration =>
            C28_Centers(it'.qualifying)
                = C28_Centers(SelectSeq(C28_InQuad(t_local.frame), within))

\* the blobs accepted are those within the configured area bounds and above the
\* configured intensity floor
C28_ByConfig ==
    LET within(b) == min_blob_area <= b.area /\ b.area <= max_blob_area /\ AboveFloor(b)
    IN  C28_DetectsAfterCalibration =>
            C28_Centers(it'.qualifying)
                = C28_Centers(SelectSeq(C28_InQuad(t_local.frame), within))

\* C28 as stated: after a successful calibration the bounds learned from the
\* four dwell-averaged samples (intensity min/max, area min/max) are the ones
\* by which the tracking loop accepts or rejects the blobs of later frames.
C28_LearnedBoundsUsed == [][C28_ByLearned]_vars

\* what the tracking loop does instead
C28_ConfigBoundsUsed == [][C28_ByConfig]_vars

\* C29.  The call was a load_config that followed a save_config directly
C29_LoadedAfterSave == conf.op = "load" /\ conf.saved # None

\* the call was a load_config that found no file
C29_LoadedWithoutFile == conf.op = "load" /\ conf.file_was = None

\* a load without a file returns the defaults and creates the file
C29_Defaults ==
    C29_LoadedWithoutFile => conf.config = <<default_config>> /\ conf.file # None

\* C29 as stated: saving a configuration and loading it back yields an equal
\* configuration, calibration profile included; loading when no file exists
\* returns the defaults and creates the file.
C29_RoundTrip ==
    /\ C29_LoadedAfterSave => ConfigEq(conf.config[1], conf.saved[1])
    /\ C29_Defaults

\* the configuration as save_config writes it at the time now: a profile whose
\* completed_at is unset or 0 gets the time of the save
C29_Stamped(config, now) ==
    IF config.calibration = None THEN config
    ELSE [config EXCEPT !.calibration.completed_at =
             IF @ = None \/ @ = <<0>> THEN <<now>> ELSE @]

\* C29 amended: saving a configuration and loading it back yields the
\* configuration saved, except that a calibration profile whose completed_at
\* was unset or 0 comes back with completed_at set to the time of the save;
\* the result compares equal to that unless the profile holds a NaN.  Loading
\* when no file exists returns the defaults and creates the file.
C29_RoundTripStamped ==
    /\ C29_LoadedAfterSave =>
          /\ conf.config[1] = C29_Stamped(conf.saved[1], conf.saved_at)
          /\ ~HasNaN(conf.saved[1]) =>
                ConfigEq(conf.config[1], C29_Stamped(conf.saved[1], conf.saved_at))
    /\ C29_Defaults

\* a profile with its completion time unset was saved and loaded back
C29_Witness ==
    /\ C29_LoadedAfterSave
    /\ conf.saved[1].calibration # None
    /\ conf.saved[1].calibration.completed_at = None
    /\ conf.config[1].calibration.completed_at = <<conf.saved_at>>
    /\ conf.config[1].detection.sensitivity = 90

\* ---------------------------------------------------------------------------
\* C30: seeding of the AdaptiveThreshold baseline
\* ---------------------------------------------------------------------------

\* 0.98*baseline + 0.02*signal as an exact rational
C30_Blend(b, signal) ==
    NormBaseline([num |-> 49 * b.num + signal * Pow50(b.k), k |-> b.k + 1])

\* the signal itself as a baseline
C30_Seed(signal) == [num |-> signal, k |-> 0]

\* an evaluate() other than the first one after construction or reset() has
\* just run on a baseline that was still 0
C30_LaterOnZero ==
    /\ thr_last.op = "evaluate"
    /\ ~thr_last.first
    /\ thr_last.before.baseline.num = 0
    /\ thr_last.signal # 0

\* C30: the first evaluate() after construction or reset() sets
\* baseline = signal, and every later evaluate() sets
\* baseline = 0.98*baseline + 0.02*signal and never seeds again
C30_SeedsOnce ==
    thr_last.op = "evaluate" =>
        click_threshold.baseline =
            IF thr_last.first
            THEN C30_Seed(thr_last.signal)
            ELSE C30_Blend(thr_last.before.baseline, thr_last.signal)

\* what the code does: evaluate() seeds whenever the baseline it finds is 0,
\* first call or not, and blends otherwise
C30_SeedsAtZero ==
    thr_last.op = "evaluate" =>
        click_threshold.baseline =
            IF thr_last.before.baseline.num = 0
            THEN C30_Seed(thr_last.signal)
            ELSE C30_Blend(thr_last.before.baseline, thr_last.signal)

-----------------------------------------------------------------------------
(* C31: a jump during reacquisition *)

\* the last call was an update of a OneEuroFilter in reacquisition whose sample
\* lay at reacquire_radius or further from the candidate
C31_Far ==
    /\ flt_last.op = "update"
    /\ flt_last.before.x = None
    /\ flt_last.before.reacquire_frames > 0
    /\ flt_last.before.candidate # None
    /\ Dist2(flt_last.value, flt_last.before.candidate)
           >= flt_last.before.reacquire_radius * flt_last.before.reacquire_radius

\* C31: during reacquisition a sample at distance >= reacquire_radius from the
\* candidate becomes the new candidate, the count restarts at 1 and the update
\* returns no value and leaves the filter without a trusted position, whatever
\* the count was before.
C31_JumpRestarts ==
    C31_Far =>
        /\ flt_last.out = None
        /\ smoother.x = None
        /\ smoother.candidate = flt_last.value
        /\ smoother.candidate_frames = 1

\* a filter built with N = 3 that had counted 2 stable samples meets a sample at
\* exactly reacquire_radius from its candidate
C31_Witness ==
    /\ C31_Far
    /\ flt_last.before.reacquire_frames = 3
    /\ flt_last.before.candidate_frames = 2
    /\ Dist2(flt_last.value, flt_last.before.candidate)
           = flt_last.before.reacquire_radius * flt_last.before.reacquire_radius

\* the same rule for Smoother.update (detection.py:459-484), as a property of
\* each call
C31_SmootherRestarts ==
    [][(/\ ema'.op = "update"
        /\ ema.sm.value = None
        /\ ema.sm.reacquire_frames > 0
        /\ ema.sm.candidate # None
        /\ ~SM_within(SM_array(ema'.value), ema.sm.candidate))
       => (/\ ema'.out = None
           /\ ema'.sm.value = None
           /\ ema'.sm.candidate = SM_array(ema'.value)
           /\ ema'.sm.candidate_frames = 1)]_vars

\* a Smoother in reacquisition has just met a sample away from its candidate
C31_SmootherJumped ==
    /\ ema.op = "update" /\ ema.out = None
    /\ ema.sm.candidate_frames = 1 /\ ~ema.first

-----------------------------------------------------------------------------
(* C32: tracks and misses *)

\* the track that holds the blob at place i of the last frame
C32_TrackOf(i) ==
    CHOOSE k \in 1..Len(blob_tracker.tracks) :
        blob_tracker.tracks[k].blob = trk_last.frame[i]

\* the blob at place i of the last frame started a track in that frame and is
\* confirmed there only by a tracker that asks for a single frame
C32_StartsAnew(i) ==
    /\ \E k \in 1..Len(blob_tracker.tracks) :
           blob_tracker.tracks[k].blob = trk_last.frame[i]
    /\ blob_tracker.tracks[C32_TrackOf(i)].count = 1
    /\ \A k \in 1..Len(trk_last.before) :
           trk_last.before[k].id # blob_tracker.tracks[C32_TrackOf(i)].id
    /\ (\E k \in 1..Len(trk_last.out) : trk_last.out[k] = trk_last.frame[i])
           => blob_tracker.persistence_frames <= 1

\* a track with no blob within the association radius in a frame is gone after
\* that frame
C32_Dropped ==
    trk_last.op = "update" =>
        \A k \in 1..Len(trk_last.before) :
            trk_last.before[k].pos \in Missed(trk_last.before, trk_last.frame)
                => \A j \in 1..Len(blob_tracker.tracks) :
                       blob_tracker.tracks[j].id # trk_last.before[k].id

\* an empty frame drops every track
C32_EmptyDropsAll ==
    (trk_last.op = "update" /\ trk_last.frame = <<>>) => blob_tracker.tracks = <<>>

\* C32 as stated: a track with no blob within the association radius in a frame
\* is dropped in that frame, an empty frame drops all tracks, and a blob that
\* reappears at the position of a dropped track afterwards starts a new track
\* with count 1 and is not confirmed before that track reaches
\* persistence_frames.
C32_NoPersistence ==
    /\ C32_Dropped
    /\ C32_EmptyDropsAll
    /\ trk_last.op = "update" => \A i \in trk_last.back : C32_StartsAnew(i)

\* C32 amended: a track with no blob within the association radius in a frame
\* is dropped in that frame, an empty frame drops all tracks, and a blob at a
\* position that had no blob within the association radius in the frame before
\* starts a new track with count 1 and is confirmed in that frame only if
\* persistence_frames is 1.
C32_NoPersistenceAfterMiss ==
    /\ C32_Dropped
    /\ C32_EmptyDropsAll
    /\ trk_last.op = "update" =>
           \A i \in 1..Len(trk_last.frame) :
               trk_last.chain[i] = 1 => C32_StartsAnew(i)

\* a tracker that asks for 3 frames sees a source again at the position where
\* its track was dropped, after a frame with no blob within the radius of that
\* position, while the track of the other source, counted twice or more, goes on
C32_Witness ==
    /\ trk_last.op = "update"
    /\ blob_tracker.persistence_frames = 3
    /\ \E i \in trk_last.back :
           /\ trk_last.chain[i] = 1
           /\ C32_StartsAnew(i)
    /\ Len(trk_last.before) = 1
    /\ trk_last.before[1].count >= 2

-----------------------------------------------------------------------------
(* C33: distance between the camera points of a calibration run *)

\* the camera points accepted so far lie pairwise at d px or more from each other
C33_Apart(d) ==
    \A i, j \in 1..Len(k_local.camera_points) :
        i < j => Dist2(k_local.camera_points[i], k_local.camera_points[j])
                     >= d * d * SubPx * SubPx

\* C33 as stated: no accepted camera point lies within 40 px of a camera point
\* accepted for an earlier target of the same run.
C33_Apart40 == C33_Apart(min_distance)

\* C33 amended: no accepted camera point lies within 39 px of a camera point
\* accepted for an earlier target of the same run.  (The blobs counted towards
\* a point lie at least 40 px from the earlier points; the point accepted is
\* the running reference, half way between the reference before and the blob.)
C33_Apart39 == C33_Apart(39)

\* two camera points accepted in one run, less than 40 px apart
C33_Witness ==
    /\ Len(k_local.camera_points) >= 2
    /\ C33_Apart(39)
    /\ ~C33_Apart(40)

-----------------------------------------------------------------------------
(* C34: the camera orientation *)

\* the top-left target's camera point, doubled, against the frame size
C34_Left == 2 * fit.source[1][1] < fit.frame[1]
C34_Right == 2 * fit.source[1][1] > fit.frame[1]
C34_Upper == 2 * fit.source[1][2] < fit.frame[2]
C34_Lower == 2 * fit.source[1][2] > fit.frame[2]

\* C34 as stated: the orientation is 0, 90, 180 or 270 according to whether the
\* top-left target's camera point lies in the upper-left, upper-right,
\* lower-right or lower-left quadrant of the frame, for every camera point; a
\* point on a centre line counts for either quadrant it borders.
C34_ByQuadrant ==
    fit.orientation # None =>
        /\ fit.orientation[1] \in {0, 90, 180, 270}
        /\ fit.orientation[1] = 0 => ~C34_Right /\ ~C34_Lower
        /\ fit.orientation[1] = 90 => ~C34_Left /\ ~C34_Lower
        /\ fit.orientation[1] = 180 => ~C34_Left /\ ~C34_Upper
        /\ fit.orientation[1] = 270 => ~C34_Right /\ ~C34_Upper

\* what the code does: the rule holds for a point off both centre lines, a
\* point on a centre line gives 270, and the result is one of the four values
C34_OffCentreLines ==
    fit.orientation # None =>
        /\ fit.orientation[1] \in {0, 90, 180, 270}
        /\ (C34_Left /\ C34_Upper) => fit.orientation[1] = 0
        /\ (C34_Right /\ C34_Upper) => fit.orientation[1] = 90
        /\ (C34_Right /\ C34_Lower) => fit.orientation[1] = 180
        /\ (C34_Left /\ C34_Lower) => fit.orientation[1] = 270
        /\ ~(C34_Left \/ C34_Right) => fit.orientation[1] = 270
        /\ ~(C34_Upper \/ C34_Lower) => fit.orientation[1] = 270

\* a point on the vertical centre line in the upper half was given 270
C34_OnCentreLine ==
    /\ fit.orientation = <<270>>
    /\ ~C34_Left /\ ~C34_Right /\ C34_Upper

-----------------------------------------------------------------------------
(* C35: the range of the projector *)

\* C35 as stated: _project returns no value exactly when there is no
\* homography or no calibration profile; otherwise both coordinates returned
\* lie in [0, 1], for every camera point.
C35_InUnitSquare ==
    fit.shot # None =>
        LET s == fit.shot[1]
        IN  /\ (s.out = None) <=> (fit.homography = None \/ ~s.profile)
            /\ s.out # None =>
                   \A k \in 1..2 : /\ ~s.out[k].nan
                                   /\ 0 <= s.out[k].v /\ s.out[k].v <= 10000

\* what the code does: the same, except that a coordinate is NaN exactly when
\* its numerator and the third coordinate are both 0
C35_UnitSquareOrNaN ==
    fit.shot # None =>
        LET s == fit.shot[1]
            h == fit.homography
            pw == h[3][1] * s.point[1] + h[3][2] * s.point[2] + h[3][3]
            p(k) == h[k][1] * s.point[1] + h[k][2] * s.point[2] + h[k][3]
        IN  /\ (s.out = None) <=> (fit.homography = None \/ ~s.profile)
            /\ s.out # None =>
                   \A k \in 1..2 :
                       /\ s.out[k].nan <=> (h[3][3] # 0 /\ pw = 0 /\ p(k) = 0)
                       /\ 0 <= s.out[k].v /\ s.out[k].v <= 10000

\* a fit that went through, and a camera point whose x coordinate came out NaN
C35_NaN ==
    /\ fit.shot # None
    /\ fit.shot[1].out # None
    /\ fit.homography # Unsolved
    /\ fit.homography[3][3] # 0
    /\ fit.shot[1].out[1].nan

-----------------------------------------------------------------------------
\* C36: the overlay process calls conn.send("cancelled") at most once in the
\* life of an overlay, whatever Escape presses, window closings and cancel
\* commands reach it, and after a call of poll_cancelled has returned true the
\* last call has returned true as well.
C36_CancelledOnce ==
    /\ ovl.sent <= 1
    /\ ovl.once => ovl.result = <<TRUE>>

\* _on_escape ran at least twice, the message was sent, and poll_cancelled has
\* returned true on two calls
C36_Witness ==
    /\ ovl.escapes >= 2
    /\ ovl.sent = 1
    /\ ovl.once
    /\ ovl.result = <<TRUE>>

-----------------------------------------------------------------------------
\* C37: the backend receives presses and releases in strict alternation,
\* starting with a press, under every interleaving of the update_click calls
\* of the tracking worker with update_click(False) of the calibration worker.
C37_Alternation ==
    \A i \in 1..Len(clk.log) :
        clk.log[i] = IF i % 2 = 1 THEN "press" ELSE "release"

\* two presses in a row reached the backend
C37_DoublePress ==
    \E i \in 1..Len(clk.log) - 1 :
        clk.log[i] = "press" /\ clk.log[i + 1] = "press"

\* two releases in a row reached the backend
C37_DoubleRelease ==
    \E i \in 1..Len(clk.log) - 1 :
        clk.log[i] = "release" /\ clk.log[i + 1] = "release"

-----------------------------------------------------------------------------
\* C38: every press sent to the backend is followed by a release in the end;
\* in particular a press that is held when the camera stream is gone or when
\* shutdown has been called is released in the end.
C38_PressReleased ==
    (pointer_driver.click_active /\ (camera_stream = None \/ ui_pc # "running"))
        ~> ~pointer_driver.click_active

\* shutdown has returned and the tracking loop has ended with the press held
C38_HeldAfterShutdown ==
    /\ ui_pc = "down"
    /\ t_pc = "done"
    /\ pointer_driver.click_active

\* the tracking loop sleeps for want of a camera with the press held
C38_HeldWithoutCamera ==
    /\ ui_pc = "running"
    /\ camera_stream = None
    /\ t_pc = "loop"
    /\ pointer_driver.click_active

-----------------------------------------------------------------------------
\* C39: a tracking iteration that sends a press has projected the pen, so it
\* had a homography and a calibration profile, and has called move() first;
\* the press is sent at the target the driver holds after that call, which is
\* the position of the iteration or one within min_move_px of it, never at the
\* default (0,0) of a driver without a target.
C39_PressAfterMove ==
    \A i \in 1..Len(it.ev) :
        it.ev[i].op = "press" =>
            /\ it.sample # None
            /\ homography # None
            /\ calibration # None
            /\ it.move_called
            /\ pointer_driver.last_target # None
            /\ it.ev[i].at = pointer_driver.last_target
            /\ LET dx == it.ev[i].at[1] - it.target[1]
                   dy == it.ev[i].at[2] - it.target[2]
               IN  dx * dx + dy * dy <= min_move_px * min_move_px

\* an iteration has sent a press after a move that the deadzone suppressed
C39_Witness ==
    /\ it.done
    /\ it.move_called
    /\ Len(it.ev) = 1
    /\ it.ev[1].op = "press"
    /\ it.ev[1].at # it.target

-----------------------------------------------------------------------------
\* a worker between its start and the clearing of its two flags
C40_Active(n) ==
    ses.w[n].pc \in {"begin", "set", "clear", "open", "run", "finally",
                     "uncalibrating", "unabort"}

\* at most one worker is between its start and the clearing of its flags, and
\* at most one overlay is open
C40_OneAtATime ==
    /\ Cardinality(ses.overlay) <= 1
    /\ Cardinality({n \in Workers : C40_Active(n)}) <= 1

\* C40: at most one calibration session is active at any time: a call of
\* run_calibration made while a worker is active starts nothing, and a worker
\* is started only after the worker before it has cleared the calibrating and
\* abort flags.
C40_OneSession ==
    /\ C40_OneAtATime
    /\ \A n \in Workers :
           (n > 1 /\ ses.w[n].pc \notin {"none", "created"}) => ses.w[n - 1].cleared

\* the ordering of C40 where no worker has died inside its finally block
C40_ClearedUnlessRaised ==
    (\A n \in Workers : ses.w[n].pc = "dead" => ses.w[n].cleared) => C40_OneSession

\* a second worker runs its session although the first one ended without
\* clearing the flags
C40_StartedUncleared ==
    /\ ses.w[1].pc = "dead"
    /\ ~ses.w[1].cleared
    /\ ses.w[2].pc = "run"
    /\ ses.calibrating

====
